---- MODULE Spec2Model ----
(***************************************************************************)
(* A model of quizcraft's stateful core: the ResponseCache                 *)
(* (quizcraft/storage/cache.py), the QuestionStorage                       *)
(* (quizcraft/questions/storage.py) and the QuestionService pipeline       *)
(* (quizcraft/questions/service.py).                                       *)
(*                                                                         *)
(* Each component has its own specification (SpecCache, SpecStorage,       *)
(* SpecService); a specification holds the other components' variables     *)
(* at their initial values.                                                *)
(***************************************************************************)
EXTENDS Integers, Sequences, FiniteSets, TLC

VARIABLES
    rows,          \* response_cache table: the rows in rowid order
    now,           \* time.time(), in half seconds
    size_limit,    \* ResponseCache.size_limit
    age_limit,     \* ResponseCache.age_limit (seconds)
    clast,         \* the last cache call: arguments, what it found, its result
    fill,          \* history: the distinct keys set since the cache was empty
    table,         \* questions table: the rows in id order
    seq,           \* sqlite_sequence of questions: the last id AUTOINCREMENT gave
    locked,        \* a connection left open by a failed call holds the write lock
    deleted,       \* history: the ids delete_question has deleted
    original,      \* history: for each stored id, the question as it was passed
    qlast,         \* the last storage call: arguments and result
    use_ai_fallback,   \* QuestionService.use_ai_fallback
    slast,         \* the last service request: arguments, result, model calls
    vlast,         \* the last validator call: argument and result
    xlast,         \* the last extractor call: argument and result
    plast,         \* the last _classify_content call: argument and result
    rlast,         \* the generate_response call in progress or last returned
    alast,         \* the last AIService.generate_questions call
    jlast,         \* the last validate_and_fix_json_response call
    glast,         \* the last create_question_set call
    hlast,         \* the last split_into_chunks call
    olast,         \* the last optimize_context call
    tlast,         \* the last _group_question_segments call
    clients        \* per client of the shared cache file: where its call stands

cacheVars == <<rows, now, size_limit, age_limit, clast, fill>>

storageVars == <<table, seq, locked, deleted, original, qlast>>

serviceVars == <<use_ai_fallback, slast>>

extVars == <<rlast, alast, jlast, glast, hlast, olast, tlast, clients>>

libVars == <<vlast, xlast, plast, extVars>>

vars == <<cacheVars, storageVars, serviceVars, libVars>>

\* Python's None and SQL's NULL.  Python and SQL values that may be None are
\* tagged: Str(s) is a string, Num(n) an integer.
None == [none |-> TRUE]
Str(s) == [str |-> s]
Num(n) == [num |-> n]

\* A text given by its characters.
Text(chars) == [chars |-> chars]

(***************************************************************************)
(* Bounds of the model.                                                    *)
(***************************************************************************)
MaxTick == 5
MaxAgeLimit == 1
MaxId == 3
MaxBatch == 2
MaxLimit == 2
MaxPattern == 5
MaxRows == 5
\* validator calls: trailing blanks of a question text, letters of the
\* option keys
MaxPad == 5
MaxOptionCount == 7
\* extractor calls: option keys per style, lines after the question line
MaxKey == 2
MaxLines == 3

DEFAULT_CACHE_SIZE_LIMIT == 1000
DEFAULT_CACHE_AGE_LIMIT == 604800
\* len(text) < 100 in _classify_content
ShortLimit == 100

Min(a, b) == IF a <= b THEN a ELSE b

Range(s) == {s[i] : i \in 1..Len(s)}

\* The subsequence of s at the indices in keep, in order.
RECURSIVE SelectIdx(_, _, _)
SelectIdx(s, keep, i) ==
    IF i > Len(s) THEN <<>>
    ELSE (IF i \in keep THEN <<s[i]>> ELSE <<>>) \o SelectIdx(s, keep, i + 1)

(***************************************************************************)
(* ResponseCache                                                           *)
(***************************************************************************)

\* Prompts and parameter mappings of the calls.  A parameter mapping is a
\* Python dict: its items in insertion order, the keys unique.
Prompts == {"p1"}

ParamMaps ==
    { << [k |-> "model", v |-> "haiku"], [k |-> "difficulty", v |-> "easy"] >>,
      << [k |-> "difficulty", v |-> "easy"], [k |-> "model", v |-> "haiku"] >>,
      << [k |-> "model", v |-> "haiku"] >>,
      << [k |-> "difficulty", v |-> "easy"] >> }

\* The responses a caller stores (the dict generate_response returns).
Responses == {[content |-> "r1"], [content |-> "r2"]}

\* The order of the parameter names as strings (sort_keys compares them).
KeyOrder == <<"cache_key_prefix", "difficulty", "model", "num_questions">>

KeyRank(key) == CHOOSE i \in 1..Len(KeyOrder) : KeyOrder[i] = key

\* Insert item into a key-sorted list of items.
RECURSIVE InsertSorted(_, _)
InsertSorted(item, sorted) ==
    IF sorted = <<>> THEN <<item>>
    ELSE IF KeyRank(item.k) <= KeyRank(Head(sorted).k)
         THEN <<item>> \o sorted
         ELSE <<Head(sorted)>> \o InsertSorted(item, Tail(sorted))

\* The items of a mapping in key order: what sort_keys=True serializes.
RECURSIVE SortKeys(_)
SortKeys(params) ==
    IF params = <<>> THEN <<>>
    ELSE InsertSorted(Head(params), SortKeys(Tail(params)))

\* json.dumps(value): a well-formed JSON text of the value.
Dumps(value) == [wf |-> TRUE, val |-> value]

\* Damaged payloads: a text that is not well-formed JSON, a NULL, a text
\* whose bytes are not valid UTF-8.
Garbled == [wf |-> FALSE, val |-> Str("malformed JSON")]
NullPayload == [wf |-> FALSE, val |-> None]
BadUtf8 == [wf |-> FALSE, val |-> Str("invalid UTF-8")]

Damages == {Garbled, NullPayload, BadUtf8}

\* json.loads(text): the value, JSONDecodeError on a malformed text,
\* TypeError on None.
JSONDecodeError == [error |-> "JSONDecodeError"]
TypeError == [error |-> "TypeError"]
Loads(text) ==
    IF text.wf THEN text.val
    ELSE IF text = NullPayload THEN TypeError ELSE JSONDecodeError

\* cursor.fetchone() raises OperationalError on a text column it cannot
\* decode as UTF-8.
FetchRaises(result) == result # None /\ result.response = BadUtf8

\* hashlib.md5 of the combined string: one digest per combined string.
Md5(combined) == [md5 |-> combined]

\* Mutant of CalculateHash: the parameters serialized in insertion order.
CalculateHashUnsorted(prompt, params) ==
    Md5(<<prompt, "|", Dumps(params)>>)

\* _calculate_hash: md5 over prompt | json.dumps(params, sort_keys=True).
CalculateHash(prompt, params) ==
    Md5(<<prompt, "|", Dumps(SortKeys(params))>>)

\* The hash keys of the calls of the model.
HashKeys == {CalculateHash(p, m) : p \in Prompts, m \in ParamMaps}

\* The size limits of the model: those the calls can exceed.
SizeLimits == 0..(Cardinality(HashKeys) - 1)

\* int(time.time()) at the half second t.
IntTime(t) == t \div 2

\* Mutant of Expired: the operands of the subtraction swapped.
ExpiredSwapped(timestamp, t) ==
    2 * timestamp - t > 2 * age_limit

\* time.time() - timestamp > self.age_limit, at the half second t (the
\* timestamp and the limit are in seconds).
Expired(timestamp, t) ==
    t - 2 * timestamp > 2 * age_limit

\* The indices of rs holding the given hash (at most one: PRIMARY KEY).
IdxOf(rs, h) == {i \in 1..Len(rs) : rs[i].hash = h}

Lookup(rs, h) ==
    IF IdxOf(rs, h) = {} THEN None ELSE rs[CHOOSE i \in IdxOf(rs, h) : TRUE]

\* DELETE FROM response_cache WHERE hash = ?
DeleteHash(rs, h) == SelectIdx(rs, (1..Len(rs)) \ IdxOf(rs, h), 1)

\* The first n rows of the scan of timestamp_idx: by timestamp, then rowid.
Oldest(rs, n) ==
    {i \in 1..Len(rs) :
        Cardinality({j \in 1..Len(rs) :
            \/ rs[j].timestamp < rs[i].timestamp
            \/ rs[j].timestamp = rs[i].timestamp /\ j < i}) < n}

\* Mutant of PruneCache: the newest rows are deleted (ORDER BY ... DESC).
PruneCacheNewest(rs) ==
    IF Len(rs) <= size_limit THEN rs
    ELSE LET n == Len(rs) - size_limit
             newest == {i \in 1..Len(rs) :
                 Cardinality({j \in 1..Len(rs) :
                     \/ rs[j].timestamp > rs[i].timestamp
                     \/ rs[j].timestamp = rs[i].timestamp /\ j > i}) < n}
         IN  SelectIdx(rs, (1..Len(rs)) \ newest, 1)

\* _prune_cache: over the limit, delete the current_size - size_limit oldest.
PruneCache(rs) ==
    IF Len(rs) <= size_limit THEN rs
    ELSE SelectIdx(rs, (1..Len(rs)) \ Oldest(rs, Len(rs) - size_limit), 1)

\* INSERT OR REPLACE: the row of the same hash goes, the new row gets the
\* next rowid.
InsertOrReplace(rs, row) == Append(DeleteHash(rs, row.hash), row)

\* The outcome of get at the half second t: the table after it, what it returns, and
\* whether it raises.
GetOutcome(rs, ret, raised) == [rows |-> rs, ret |-> ret, raised |-> raised]

\* Mutant of GetResult: an expired entry is a miss but its row is kept.
GetResultKeepExpired(rs, prompt, params, t) ==
    LET hash_key == CalculateHash(prompt, params)
        result == Lookup(rs, hash_key)
    IN  IF FetchRaises(result) THEN GetOutcome(rs, None, TRUE)
        ELSE IF result = None THEN GetOutcome(rs, None, FALSE)
        ELSE IF Expired(result.timestamp, t) THEN GetOutcome(rs, None, FALSE)
        ELSE IF Loads(result.response) = JSONDecodeError
             THEN GetOutcome(rs, None, FALSE)
        ELSE IF Loads(result.response) = TypeError
             THEN GetOutcome(rs, None, TRUE)
             ELSE GetOutcome(rs, Loads(result.response), FALSE)

\* ResponseCache.get: the fetch raises; miss; expired (delete, miss);
\* JSONDecodeError (caught, miss); TypeError (raised); hit.
GetResult(rs, prompt, params, t) ==
    LET hash_key == CalculateHash(prompt, params)
        result == Lookup(rs, hash_key)
    IN  IF FetchRaises(result) THEN GetOutcome(rs, None, TRUE)
        ELSE IF result = None THEN GetOutcome(rs, None, FALSE)
        ELSE IF Expired(result.timestamp, t)
             THEN GetOutcome(DeleteHash(rs, CalculateHash(prompt, params)),
                             None, FALSE)
        ELSE IF Loads(result.response) = JSONDecodeError
             THEN GetOutcome(rs, None, FALSE)
        ELSE IF Loads(result.response) = TypeError
             THEN GetOutcome(rs, None, TRUE)
             ELSE GetOutcome(rs, Loads(result.response), FALSE)

(***************************************************************************)
(* QuestionStorage                                                         *)
(***************************************************************************)

\* Python truthiness of a value that may be None, a string or an integer.
Truthy(v) == v # None /\ v # Str("") /\ v # Num(0) /\ v # Text(<<>>)

Question(text, options, answer, explanation, page, stext, difficulty, cat) ==
    [question_text |-> text, options |-> options, correct_answer |-> answer,
     explanation |-> explanation, source_page |-> page, source_text |-> stext,
     difficulty |-> difficulty, category |-> cat]

TwoOptions == [A |-> "Option A", B |-> "Option B"]

\* The questions a caller stores.
GoodQuestions ==
    { Question(Str("What is Python?"), TwoOptions, Str("B"),
               Str("It is a language."), Num(1), Str("page text"),
               Str("easy"), Str("Programming")),
      Question(Str("What is a database?"), TwoOptions, Str("A"),
               None, None, None, Str("easy"), Str("Databases")) }

\* A question whose correct_answer is missing.
NoAnswerQuestion ==
    Question(Str("What is missing?"), TwoOptions, None,
             None, None, None, Str("easy"), Str("Programming"))

Questions == GoodQuestions \cup {NoAnswerQuestion}

SourceFiles == {None, Str("test.pdf")}

\* The filter values of the calls: omitted, an empty string, a tag.
Categories == {None, Str(""), Str("Programming")}
Difficulties == {None, Str("easy")}

\* Sequences over S of length at most n.
SeqsUpTo(S, n) == UNION {[1..k -> S] : k \in 0..n}

\* The row an INSERT of the question writes, with the id it gets.
InsertedRow(id, question, source_file) ==
    [id |-> id,
     question_text |-> question.question_text,
     options |-> Dumps(question.options),
     correct_answer |-> question.correct_answer,
     explanation |-> question.explanation,
     source_page |-> question.source_page,
     source_text |-> question.source_text,
     difficulty |-> question.difficulty,
     category |-> question.category,
     source_file |-> source_file]

\* The columns declared NOT NULL hold a value (options is always a text).
NotNullOk(question) ==
    question.question_text # None /\ question.correct_answer # None

\* INTEGER PRIMARY KEY AUTOINCREMENT: one more than the largest id ever given.
NextId(tbl, s) == s + 1

\* The state of a connection's transaction: the table and the sequence as
\* the connection sees them, the ids it has inserted, whether it has failed.
Tx(tbl, s, ids, error) == [table |-> tbl, seq |-> s, ids |-> ids, error |-> error]

\* cursor.execute(INSERT ...) within the transaction tx: IntegrityError on a
\* NULL in a NOT NULL column, OperationalError when another connection
\* holds the write lock.
ExecuteInsert(tx, question, source_file, lock) ==
    IF lock \/ ~NotNullOk(question)
    THEN Tx(tx.table, tx.seq, tx.ids, TRUE)
    ELSE LET id == NextId(tx.table, tx.seq)
         IN  Tx(Append(tx.table, InsertedRow(id, question, source_file)),
                id, Append(tx.ids, id), FALSE)

\* The for loop of store_questions from the i-th question on: it stops at
\* the first INSERT that raises.
RECURSIVE InsertLoop(_, _, _, _, _)
InsertLoop(tx, questions, source_file, lock, i) ==
    IF i > Len(questions) THEN tx
    ELSE LET next == ExecuteInsert(tx, questions[i], source_file, lock)
         IN  IF next.error THEN next
             ELSE InsertLoop(next, questions, source_file, lock, i + 1)

\* Mutant of StoreQuestionsResult: a failed batch is committed, not rolled
\* back.
StoreQuestionsNoRollback(tbl, s, questions, source_file, lock) ==
    LET tx == InsertLoop(Tx(tbl, s, <<>>, FALSE), questions, source_file,
                         lock, 1)
    IN  [table |-> tx.table, seq |-> tx.seq,
         ret |-> IF tx.error THEN None ELSE [ids |-> tx.ids],
         raised |-> tx.error]

\* store_questions: BEGIN, the loop, then commit, or rollback and raise.
StoreQuestionsResult(tbl, s, questions, source_file, lock) ==
    LET tx == InsertLoop(Tx(tbl, s, <<>>, FALSE), questions, source_file,
                         lock, 1)
    IN  IF tx.error
        THEN [table |-> tbl, seq |-> s, ret |-> None, raised |-> TRUE]
        ELSE [table |-> tx.table, seq |-> tx.seq, ret |-> [ids |-> tx.ids],
              raised |-> FALSE]

\* Mutant of RowToQuestion: the options column is returned as stored, not
\* parsed.
RowToQuestionRaw(row) ==
    Question(row.question_text, row.options, row.correct_answer,
             row.explanation, row.source_page, row.source_text,
             row.difficulty, row.category)

\* The Question built from a selected row (options through json.loads).
RowToQuestion(row) ==
    Question(row.question_text, Loads(row.options), row.correct_answer,
             row.explanation, row.source_page, row.source_text,
             row.difficulty, row.category)

RowIdx(tbl, id) == {i \in 1..Len(tbl) : tbl[i].id = id}

TableIds(tbl) == {tbl[i].id : i \in 1..Len(tbl)}

\* The WHERE clause get_questions and count_questions build: a condition is
\* added for each argument that is truthy.
RowMatches(row, category, difficulty, source_file) ==
    /\ Truthy(category) => row.category = category
    /\ Truthy(difficulty) => row.difficulty = difficulty
    /\ Truthy(source_file) => row.source_file = source_file

Matching(tbl, category, difficulty, source_file) ==
    SelectIdx(tbl, {i \in 1..Len(tbl) :
                      RowMatches(tbl[i], category, difficulty, source_file)}, 1)

\* LIMIT n of SQLite: the first n rows; a negative n is no limit.
SqlLimit(selected, n) ==
    IF n < 0 THEN selected ELSE SubSeq(selected, 1, Min(n, Len(selected)))

\* The rows get_questions selects: LIMIT is added when limit is truthy.
SelectQuestions(tbl, category, difficulty, source_file, limit) ==
    LET matching == Matching(tbl, category, difficulty, source_file)
    IN  IF Truthy(limit) THEN SqlLimit(matching, limit.num) ELSE matching

MapRows(selected) == [i \in 1..Len(selected) |-> RowToQuestion(selected[i])]

\* qlast describes the storage call that has returned and whose result the
\* caller holds; NoQCall between calls.
NoQCall == [op |-> "none"]

\* The questions as passed, for the ids in ids (in order) on top of orig.
RECURSIVE Remember(_, _, _, _)
Remember(orig, ids, questions, i) ==
    IF i > Len(ids) THEN orig
    ELSE Remember([id \in DOMAIN orig \cup {ids[i]} |->
                      IF id = ids[i] THEN questions[i] ELSE orig[id]],
                  ids, questions, i + 1)

Forget(orig, id) == [x \in DOMAIN orig \ {id} |-> orig[x]]

IdleStorage ==
    /\ table = <<>>
    /\ seq = 0
    /\ locked = FALSE
    /\ deleted = {}
    /\ original = <<>>
    /\ qlast = NoQCall

InitStorage == IdleStorage

\* store_question(question, source_file).  When the INSERT raises, the
\* connection is left open: it holds the write lock if it got it.
StoreQuestion(question, source_file) ==
    LET tx == ExecuteInsert(Tx(table, seq, <<>>, FALSE), question,
                            source_file, locked)
    IN  /\ qlast = NoQCall
        /\ seq < MaxId
        /\ IF tx.error
           THEN /\ locked' = TRUE
                /\ UNCHANGED <<table, seq, original>>
                /\ qlast' = [op |-> "store_question", question |-> question,
                             ret |-> None, raised |-> TRUE]
           ELSE /\ table' = tx.table
                /\ seq' = tx.seq
                /\ original' = Remember(original, tx.ids, <<question>>, 1)
                /\ UNCHANGED locked
                /\ qlast' = [op |-> "store_question", question |-> question,
                             ret |-> Num(tx.ids[1]), raised |-> FALSE]
        /\ UNCHANGED <<deleted, cacheVars, serviceVars, libVars>>

\* store_questions(questions, source_file).
StoreQuestions(questions, source_file) ==
    LET out == StoreQuestionsResult(table, seq, questions, source_file, locked)
    IN  /\ qlast = NoQCall
        /\ seq + Len(questions) <= MaxId
        /\ table' = out.table
        /\ seq' = out.seq
        /\ original' = IF out.raised THEN original
                       ELSE Remember(original, out.ret.ids, questions, 1)
        /\ qlast' = [op |-> "store_questions", questions |-> questions,
                     source_file |-> source_file, before |-> table,
                     lock |-> locked,
                     ret |-> out.ret, raised |-> out.raised]
        /\ UNCHANGED <<locked, deleted, cacheVars, serviceVars, libVars>>

\* get_question(question_id).
GetQuestion(id) ==
    /\ qlast = NoQCall
    /\ qlast' = [op |-> "get_question", id |-> id,
                 ret |-> IF RowIdx(table, id) = {} THEN None
                         ELSE RowToQuestion(
                                  table[CHOOSE i \in RowIdx(table, id) : TRUE])]
    /\ UNCHANGED <<table, seq, locked, deleted, original, cacheVars, serviceVars, libVars>>

\* get_questions(category, difficulty, source_file, limit).
GetQuestions(category, difficulty, source_file, limit) ==
    /\ qlast = NoQCall
    /\ qlast' = [op |-> "get_questions", category |-> category,
                 difficulty |-> difficulty, source_file |-> source_file,
                 limit |-> limit,
                 ret |-> MapRows(SelectQuestions(table, category, difficulty,
                                                 source_file, limit))]
    /\ UNCHANGED <<table, seq, locked, deleted, original, cacheVars, serviceVars, libVars>>

\* count_questions(category, difficulty, source_file).
CountQuestions(category, difficulty, source_file) ==
    /\ qlast = NoQCall
    /\ qlast' = [op |-> "count_questions", category |-> category,
                 difficulty |-> difficulty, source_file |-> source_file,
                 ret |-> Len(Matching(table, category, difficulty,
                                      source_file))]
    /\ UNCHANGED <<table, seq, locked, deleted, original, cacheVars, serviceVars, libVars>>

\* delete_question(question_id): TRUE iff a row was deleted; it raises when
\* another connection holds the write lock.
DeleteQuestion(id) ==
    /\ qlast = NoQCall
    /\ IF locked
       THEN /\ qlast' = [op |-> "delete_question", id |-> id, ret |-> None,
                         raised |-> TRUE]
            /\ UNCHANGED <<table, deleted, original>>
       ELSE /\ table' = SelectIdx(table, (1..Len(table)) \ RowIdx(table, id), 1)
            /\ deleted' = IF RowIdx(table, id) = {} THEN deleted
                          ELSE deleted \cup {id}
            /\ original' = Forget(original, id)
            /\ qlast' = [op |-> "delete_question", id |-> id,
                         ret |-> (RowIdx(table, id) # {}), raised |-> FALSE]
    /\ UNCHANGED <<seq, locked, cacheVars, serviceVars, libVars>>

\* The interpreter finalizes the connection a failed call left open: its
\* transaction is rolled back and the lock released.
CollectConnection ==
    /\ locked
    /\ locked' = FALSE
    /\ UNCHANGED <<table, seq, deleted, original, qlast, cacheVars, serviceVars, libVars>>

\* The caller is done with the result of the last call.
ReturnStorage ==
    /\ qlast # NoQCall
    /\ qlast' = NoQCall
    /\ UNCHANGED <<table, seq, locked, deleted, original, cacheVars, serviceVars, libVars>>

Limits == {None} \cup {Num(n) : n \in 0..MaxLimit}

NextStorage ==
    \/ \E q \in Questions, f \in SourceFiles : StoreQuestion(q, f)
    \/ \E b \in SeqsUpTo(Questions, MaxBatch), f \in SourceFiles :
          StoreQuestions(b, f)
    \/ \E id \in 1..MaxId : GetQuestion(id)
    \/ \E c \in Categories, d \in Difficulties, f \in SourceFiles,
          l \in Limits : GetQuestions(c, d, f, l)
    \/ \E c \in Categories, d \in Difficulties, f \in SourceFiles :
          CountQuestions(c, d, f)
    \/ \E id \in 1..MaxId : DeleteQuestion(id)
    \/ CollectConnection
    \/ ReturnStorage


(***************************************************************************)
(* QuestionValidator (quizcraft/questions/validator.py)                    *)
(***************************************************************************)

MIN_QUESTION_LENGTH == 10
MIN_OPTIONS == 2
MAX_OPTIONS == 6

Whitespace == {" ", "\n", "\t"}

\* str.strip() on a text given by its characters.
RECURSIVE LStrip(_)
LStrip(s) == IF s # <<>> /\ s[1] \in Whitespace THEN LStrip(Tail(s)) ELSE s

RECURSIVE RStrip(_)
RStrip(s) ==
    IF s # <<>> /\ s[Len(s)] \in Whitespace
    THEN RStrip(SubSeq(s, 1, Len(s) - 1)) ELSE s

Strip(s) == RStrip(LStrip(s))

EndsWith(s, c) == s # <<>> /\ s[Len(s)] = c

UpperKeys == <<"A", "B", "C", "D", "E">>
LowerKeys == <<"a", "b", "c", "d", "e">>
Digits == <<"1", "2", "3", "4", "5">>

\* The place of a key in a sequence of keys that holds it.
Place(keys, k) == CHOOSE i \in DOMAIN keys : keys[i] = k

\* str.upper() on the one-character strings the model uses.
Upper(k) ==
    IF k \in Range(LowerKeys) THEN UpperKeys[Place(LowerKeys, k)] ELSE k

\* A JSON array where a dict of options is expected.
JsonList(items) == [json_list |-> items]
IsJsonList(o) == DOMAIN o = {"json_list"}

\* The option keys of the model, in the order the dicts list them.
AllKeys == <<"A", "B", "C", "D", "E", "F", "G", "H", "a", "b">>

\* set("ABCDE"[:max_options])
ValidKeys == Range(SubSeq(<<"A", "B", "C", "D", "E">>, 1, Min(MAX_OPTIONS, 5)))

Err(kind, arg) == [kind |-> kind, arg |-> arg]

\* The keys of the options dict, in order.
Keys(options) == SelectSeq(AllKeys, LAMBDA k : k \in DOMAIN options)

BlankOption(text) == text = "" \/ text = " "

\* validate_question raises AttributeError (no .keys()) on options that are
\* a non-empty list.
ValidateRaises(question) ==
    Truthy(question.options) /\ IsJsonList(question.options)

RequiredErrors(question) ==
    LET missing == SelectSeq(<<"question_text", "options", "correct_answer">>,
                             LAMBDA f : ~Truthy(question[f]))
    IN  [i \in 1..Len(missing) |-> Err("missing_required_field", missing[i])]

TextErrors(question) ==
    IF ~Truthy(question.question_text) THEN <<>>
    ELSE LET chars == question.question_text.chars
         IN  (IF Len(chars) < MIN_QUESTION_LENGTH
              THEN <<Err("text_too_short", "")>> ELSE <<>>)
             \o (IF ~EndsWith(Strip(chars), "?")
                 THEN <<Err("no_question_mark", "")>> ELSE <<>>)

OptionErrors(question) ==
    IF ~Truthy(question.options) \/ IsJsonList(question.options) THEN <<>>
    ELSE LET options == question.options
             num_options == Cardinality(DOMAIN options)
             bad == SelectSeq(Keys(options), LAMBDA k : k \notin ValidKeys)
             empty == SelectSeq(Keys(options),
                                LAMBDA k : BlankOption(options[k]))
         IN  (IF num_options < MIN_OPTIONS
              THEN <<Err("too_few_options", "")>> ELSE <<>>)
             \o (IF num_options > MAX_OPTIONS
                 THEN <<Err("too_many_options", "")>> ELSE <<>>)
             \o [i \in 1..Len(bad) |-> Err("invalid_option_key", bad[i])]
             \o [i \in 1..Len(empty) |-> Err("empty_option", empty[i])]

AnswerErrors(question) ==
    IF /\ Truthy(question.correct_answer)
       /\ Truthy(question.options)
       /\ ~IsJsonList(question.options)
       /\ question.correct_answer.str \notin DOMAIN question.options
    THEN <<Err("answer_not_in_options", "")>> ELSE <<>>

\* validate_question: the list of errors (is_valid iff it is empty).
ValidateQuestion(question) ==
    RequiredErrors(question) \o TextErrors(question)
        \o OptionErrors(question) \o AnswerErrors(question)

\* Mutant of ValidateQuestionSet: every question counts as valid.
ValidateQuestionSetAcceptAll(questions, i, acc) ==
    [acc EXCEPT !.valid = questions]

\* validate_question_set from the i-th question on: the valid questions, the
\* invalid ones with their errors, and whether validate_question raised.
RECURSIVE ValidateQuestionSet(_, _, _)
ValidateQuestionSet(questions, i, acc) ==
    IF i > Len(questions) THEN acc
    ELSE IF ValidateRaises(questions[i])
    THEN [acc EXCEPT !.raised = TRUE]
    ELSE LET errors == ValidateQuestion(questions[i])
         IN  ValidateQuestionSet(questions, i + 1,
                 IF errors = <<>>
                 THEN [acc EXCEPT !.valid = Append(@, questions[i])]
                 ELSE [acc EXCEPT !.invalid =
                           Append(@, [question |-> questions[i],
                                      errors |-> errors])])

NoneChecked == [valid |-> <<>>, invalid |-> <<>>, raised |-> FALSE]

\* fix_common_issues: the fixed copy and the fixes applied.
FixCommonIssues(question) ==
    LET text == question.question_text
        fix_mark == Truthy(text) /\ ~EndsWith(Strip(text.chars), "?")
        options == question.options
        has_options == Truthy(options)
        renamed == IF has_options
                   THEN SelectSeq(Keys(options), LAMBDA k : Upper(k) # k)
                   ELSE <<>>
        new_options ==
            IF ~has_options THEN options
            ELSE [K \in {Upper(k) : k \in DOMAIN options} |->
                     LET from == SelectSeq(Keys(options),
                                           LAMBDA k : Upper(k) = K)
                     IN  options[from[Len(from)]]]
        answer == question.correct_answer
        fix_answer == Truthy(answer) /\ Upper(answer.str) # answer.str
    IN  [question |->
             [question EXCEPT
                 !.question_text = IF fix_mark
                                   THEN Text(Strip(text.chars) \o <<"?">>)
                                   ELSE text,
                 !.options = new_options,
                 !.correct_answer = IF fix_answer
                                    THEN Str(Upper(answer.str)) ELSE answer],
         fixes |-> (IF fix_mark THEN <<Err("added_question_mark", "")>>
                    ELSE <<>>)
                   \o [i \in 1..Len(renamed) |->
                          Err("option_key_upper", renamed[i])]
                   \o (IF fix_answer THEN <<Err("answer_upper", "")>>
                       ELSE <<>>)]

(***************************************************************************)
(* QuestionService (quizcraft/questions/service.py)                        *)
(***************************************************************************)

\* "What is it?": long enough, ends with a question mark.
GoodText == Text(<<"W", "h", "a", "t", " ", "i", "s", " ", "i", "t", "?">>)
\* Too short.
ShortText == Text(<<"W", "h", "y", "?">>)

\* What QuestionExtractor.extract_questions yields for a group: a stripped
\* text that ends with a question mark, at least two options with keys in
\* A..E and non-blank texts, a correct answer among the keys, the page and
\* the text of the group.
PatternQuestion(text) ==
    Question(text, TwoOptions, Str("A"), None, Num(1), Str("group text"),
             None, None)

ValidPattern == PatternQuestion(GoodText)
ShortPattern == PatternQuestion(ShortText)

\* The lists the extractor yields: a valid questions and b with a text that
\* is too short (the one defect validate_question finds in its output),
\* the short ones first or last.
Repeat(x, n) == [i \in 1..n |-> x]

PatternList(a, b, short_first) ==
    IF short_first
    THEN Repeat(ShortPattern, b) \o Repeat(ValidPattern, a)
    ELSE Repeat(ValidPattern, a) \o Repeat(ShortPattern, b)

PatternCounts ==
    {t \in (0..MaxPattern) \X (0..MaxPattern) \X BOOLEAN :
        t[1] + t[2] <= MaxPattern}

\* The entries of the "questions" array of a model reply.
GoodData ==
    [question |-> GoodText, options |-> TwoOptions,
     correct_answer |-> Str("B"), explanation |-> Str("Because.")]
ShortData ==
    [question |-> ShortText, options |-> TwoOptions,
     correct_answer |-> Str("A")]
NoQuestionKeyData == [options |-> TwoOptions, correct_answer |-> Str("A")]
ListOptionsData ==
    [question |-> GoodText, options |-> JsonList(<<"x", "y">>),
     correct_answer |-> Str("A")]

\* What generate_response and validate_and_fix_json_response make of a
\* request: the transport raises (RuntimeError after the retries,
\* ValueError on a blank prompt), the content holds no JSON object, or it
\* holds one.
TransportError == [kind |-> "transport_error"]
Unparseable == [kind |-> "unparseable"]
JsonReply(obj) == [kind |-> "json", content |-> obj]

Replies ==
    << TransportError, Unparseable,
       JsonReply([note |-> "nothing found"]),
       JsonReply([questions |-> <<>>]),
       JsonReply([questions |-> <<GoodData>>]),
       JsonReply([questions |-> <<GoodData, ShortData>>]),
       JsonReply([questions |-> <<GoodData, NoQuestionKeyData>>]),
       JsonReply([questions |-> <<ListOptionsData>>]) >>

\* dict.get(key): None when the key is missing.
DictGet(data, key) == IF key \in DOMAIN data THEN data[key] ELSE None

\* Question.from_dict raises KeyError without these keys.
FromDictRaises(data) ==
    ~({"question", "options", "correct_answer"} \subseteq DOMAIN data)

FromDict(data) ==
    Question(data["question"], data["options"], data["correct_answer"],
             DictGet(data, "explanation"), DictGet(data, "source_page"),
             DictGet(data, "source_text"), DictGet(data, "difficulty"),
             DictGet(data, "category"))

\* The model call raised, or the try block of _extract_with_ai_fallback
\* raised on the reply (no JSON object in the content, an entry without a
\* required key), or the object has no "questions" array.
AiFailed(reply) ==
    \/ reply.kind # "json"
    \/ "questions" \notin DOMAIN reply.content
    \/ \E i \in 1..Len(reply.content.questions) :
           FromDictRaises(reply.content.questions[i])

\* Mutant of ExtractWithAiFallback: an entry from_dict raises on is skipped
\* and the entries parsed next to it are kept.
ExtractWithAiFallbackKeepParsed(ai, reply) ==
    IF ai = None THEN [questions |-> <<>>, calls |-> 0]
    ELSE [calls |-> 1,
          questions |->
              IF reply.kind # "json" THEN <<>>
              ELSE IF "questions" \notin DOMAIN reply.content THEN <<>>
              ELSE LET q_data == reply.content.questions
                       parsed == SelectSeq(q_data,
                                     LAMBDA d : ~FromDictRaises(d))
                   IN  [i \in 1..Len(parsed) |-> FromDict(parsed[i])]]

\* _extract_with_ai_fallback: the questions it returns and the number of
\* calls of client.generate_response it made.  Every exception of the try
\* block gives the empty list.
ExtractWithAiFallback(ai, reply) ==
    IF ai = None THEN [questions |-> <<>>, calls |-> 0]
    ELSE [calls |-> 1,
          questions |->
              IF reply.kind # "json" THEN <<>>
              ELSE IF "questions" \notin DOMAIN reply.content THEN <<>>
              ELSE LET q_data == reply.content.questions
                   IN  IF \E i \in 1..Len(q_data) : FromDictRaises(q_data[i])
                       THEN <<>>
                       ELSE [i \in 1..Len(q_data) |-> FromDict(q_data[i])]]

\* Mutant of FallbackTriggered: the fallback also runs at five pattern
\* questions.
FallbackTriggeredAtFive(use_ai, pattern_extracted) ==
    use_ai /\ pattern_extracted <= 5

\* self.use_ai_fallback and stats["pattern_extracted"] < 5
FallbackTriggered(use_ai, pattern_extracted) ==
    use_ai /\ pattern_extracted < 5

\* fix_common_issues raises AttributeError on options that are None
\* (no .copy()) or a non-empty list (no .items()).
FixRaises(question) ==
    question.options = None \/ IsJsonList(question.options)

\* The loop over the invalid pattern questions from the i-th on: those that
\* got a fix and are valid after it.
RECURSIVE FixedQuestions(_, _, _)
FixedQuestions(invalid, i, acc) ==
    IF i > Len(invalid) THEN acc
    ELSE IF FixRaises(invalid[i].question) THEN [acc EXCEPT !.raised = TRUE]
    ELSE LET out == FixCommonIssues(invalid[i].question)
         IN  FixedQuestions(invalid, i + 1,
                 IF out.fixes # <<>> /\ ~ValidateRaises(out.question)
                        /\ ValidateQuestion(out.question) = <<>>
                 THEN [acc EXCEPT !.fixed = Append(@, out.question)]
                 ELSE acc)

NoneFixed == [fixed |-> <<>>, raised |-> FALSE]

\* slast describes the extract_questions_from_segments request that has
\* returned: its arguments (segments as the t of PatternList), whether the
\* model call or the parsing of its reply failed, the table before it, the
\* number of
\* model calls, whether it raised, the pair it returned, and whether the
\* request before it sent the model a prompt with the text of the same
\* segments; NoSCall once the caller is done with it.
NoSCall == [op |-> "none"]

AIService == [client |-> "ClaudeClient"]

\* QuestionService.__init__: ai_service is an AIService with the fallback,
\* None without it.
AiServiceOf(use_ai) == IF use_ai THEN AIService ELSE None

IdleService ==
    /\ use_ai_fallback = TRUE
    /\ slast = NoSCall

\* QuestionService(db_path, use_ai_fallback)
InitService ==
    /\ use_ai_fallback \in BOOLEAN
    /\ slast = NoSCall

\* Mutant of Merged: the invalid questions of the model are not counted.
MergedPatternInvalidOnly(use_ai, ai_svc, pattern_questions, reply) ==
    LET checked == ValidateQuestionSet(pattern_questions, 1, NoneChecked)
        fixed == FixedQuestions(checked.invalid, 1, NoneFixed)
        triggered == FallbackTriggered(use_ai, Len(pattern_questions))
        ai == IF triggered THEN ExtractWithAiFallback(ai_svc, reply)
              ELSE [questions |-> <<>>, calls |-> 0]
        ai_checked == ValidateQuestionSet(ai.questions, 1, NoneChecked)
    IN  [all_questions |-> checked.valid \o fixed.fixed \o ai_checked.valid,
         pattern_extracted |-> Len(pattern_questions),
         ai_extracted |-> Len(ai.questions),
         invalid_questions |-> Len(checked.invalid),
         calls |-> ai.calls,
         raised |-> checked.raised \/ fixed.raised \/ ai_checked.raised]

\* The values of the request once the fallback step is over, in a service
\* with the attributes use_ai and ai.
Merged(use_ai, ai_svc, pattern_questions, reply) ==
    LET checked == ValidateQuestionSet(pattern_questions, 1, NoneChecked)
        fixed == FixedQuestions(checked.invalid, 1, NoneFixed)
        triggered == FallbackTriggered(use_ai, Len(pattern_questions))
        ai == IF triggered THEN ExtractWithAiFallback(ai_svc, reply)
              ELSE [questions |-> <<>>, calls |-> 0]
        ai_checked == ValidateQuestionSet(ai.questions, 1, NoneChecked)
    IN  [all_questions |-> checked.valid \o fixed.fixed \o ai_checked.valid,
         pattern_extracted |-> Len(pattern_questions),
         ai_extracted |-> Len(ai.questions),
         invalid_questions |-> Len(checked.invalid) + Len(ai_checked.invalid),
         calls |-> ai.calls,
         raised |-> checked.raised \/ fixed.raised \/ ai_checked.raised]

\* Merged, tabulated over the requests of the model: a service with or
\* without the fallback, the extractor yielding PatternList(t), the model
\* answering Replies[r].
MergedOf ==
    [use_ai \in BOOLEAN, t \in PatternCounts, r \in DOMAIN Replies |->
        Merged(use_ai, AiServiceOf(use_ai),
               PatternList(t[1], t[2], t[3]), Replies[r])] @@ <<>>

\* Mutant of Stores: the questions are stored without a source file too.
StoresWithoutFile(source_file, all_questions) == all_questions # <<>>

\* if source_file and all_questions
Stores(source_file, all_questions) ==
    Truthy(source_file) /\ all_questions # <<>>

\* The request last sent the model the combined text of the segments t.
PromptedWith(last, t) ==
    last.op = "extract" /\ last.calls = 1 /\ last.segments = t

\* extract_questions_from_segments(segments, source_file), for segments from
\* which the extractor yields PatternList(t) and to whose text the model
\* answers Replies[r].
ExtractQuestionsFromSegments(t, source_file, r) ==
    LET m == MergedOf[use_ai_fallback, t, r]
        stores == ~m.raised /\ Stores(source_file, m.all_questions)
        out == IF stores
               THEN StoreQuestionsResult(table, seq, m.all_questions,
                                         source_file, locked)
               ELSE [table |-> table, seq |-> seq, ret |-> [ids |-> <<>>],
                     raised |-> FALSE]
        raised == m.raised \/ out.raised
    IN  /\ stores => seq + Len(m.all_questions) <= MaxRows
        /\ table' = out.table
        /\ seq' = out.seq
        /\ original' = IF out.raised THEN original
                       ELSE Remember(original, out.ret.ids, m.all_questions, 1)
        /\ slast' = [op |-> "extract", segments |-> t,
                     failed |-> AiFailed(Replies[r]),
                     repeated |-> PromptedWith(slast, t),
                     source_file |-> source_file, before |-> table,
                     calls |-> m.calls, raised |-> raised,
                     questions |-> IF raised THEN None ELSE m.all_questions,
                     stats |-> [pattern_extracted |-> m.pattern_extracted,
                                ai_extracted |-> m.ai_extracted,
                                invalid_questions |-> m.invalid_questions,
                                stored_questions |->
                                    IF raised THEN 0 ELSE Len(out.ret.ids)]]
        /\ UNCHANGED <<use_ai_fallback, locked, deleted, qlast,
                       cacheVars, libVars>>

\* The caller is done with the result of the request.
ReturnService ==
    /\ slast # NoSCall
    /\ slast' = NoSCall
    /\ UNCHANGED <<use_ai_fallback, storageVars, cacheVars, libVars>>

ServiceSourceFiles == {None, Str(""), Str("test.pdf")}

\* Requests do not overlap: one starts when the last has returned, with any
\* arguments, or the caller repeats, once, the request that has just
\* returned from a model call.
NextService ==
    \/ /\ slast = NoSCall
       /\ \E t \in PatternCounts, f \in ServiceSourceFiles,
             r \in DOMAIN Replies : ExtractQuestionsFromSegments(t, f, r)
    \/ /\ slast # NoSCall
       /\ slast.calls = 1 /\ ~slast.repeated
       /\ \E r \in DOMAIN Replies :
             ExtractQuestionsFromSegments(slast.segments, slast.source_file, r)
    \/ ReturnService


\* clast describes the cache call that has returned (NoCall once the caller
\* is done with it): what it returned and whether it raised; for a
\* set and a get its arguments; for a get also the row it found, the number
\* of rows before it and the set of the same hash that returned just before
\* it (None when there was none).
Call(op, prompt, params, hash_key, response, found, n0, ret, raised, after) ==
    [op |-> op, prompt |-> prompt, params |-> params, hash |-> hash_key,
     response |-> response,
     found |-> found, n0 |-> n0, ret |-> ret, raised |-> raised,
     after_set |-> after]

NoCall == Call("none", "", <<>>, None, None, None, 0, None, FALSE, None)

\* Two mappings with the same key/value pairs, in whatever insertion order.
SameMapping(m1, m2) == Range(m1) = Range(m2)

EmptyFill == [pure |-> TRUE, log |-> {}]
NoFill == [pure |-> FALSE, log |-> {}]

InitCache ==
    /\ rows = <<>>
    /\ now = 0
    /\ size_limit \in SizeLimits
    /\ age_limit \in 1..MaxAgeLimit
    /\ clast = NoCall
    /\ fill = EmptyFill

\* The clock advances (it never goes back).
Tick ==
    /\ clast.op = "none"
    /\ now < MaxTick
    /\ now' = now + 1
    /\ UNCHANGED clast
    /\ UNCHANGED <<rows, size_limit, age_limit, fill, storageVars, serviceVars, libVars>>

\* ResponseCache.set(prompt, params, response, metadata).
Set(prompt, params, response, metadata) ==
    LET hash_key == CalculateHash(prompt, params)
        timestamp == IntTime(now)
        row == [hash |-> hash_key, prompt |-> prompt,
                response |-> Dumps(response), timestamp |-> timestamp,
                metadata |-> Dumps(IF metadata = None THEN <<>> ELSE metadata),
                set_at |-> now]
    IN  /\ clast.op = "none"
        /\ rows' = PruneCache(InsertOrReplace(rows, row))
        /\ clast' = Call("set", prompt, params, hash_key, response, None, 0,
                         None, FALSE, None)
        /\ fill' = IF fill.pure /\ hash_key \notin {e.hash : e \in fill.log}
                   THEN [fill EXCEPT !.log = @ \cup
                            {[hash |-> hash_key, timestamp |-> timestamp]}]
                   ELSE NoFill
        /\ UNCHANGED <<now, size_limit, age_limit, storageVars, serviceVars, libVars>>

\* ResponseCache.get(prompt, params).
Get(prompt, params) ==
    LET out == GetResult(rows, prompt, params, now)
        hash_key == CalculateHash(prompt, params)
    IN  /\ clast.op \in {"none", "set"}
        /\ rows' = out.rows
        /\ clast' = Call("get", prompt, params, hash_key, None,
                         Lookup(rows, hash_key), Len(rows), out.ret,
                         out.raised,
                         IF /\ clast.op = "set"
                            /\ clast.prompt = prompt
                            /\ SameMapping(clast.params, params)
                         THEN [params |-> clast.params,
                               response |-> clast.response]
                         ELSE None)
        /\ fill' = IF out.rows = rows THEN fill ELSE NoFill
        /\ UNCHANGED <<now, size_limit, age_limit, storageVars, serviceVars, libVars>>

\* ResponseCache.delete(prompt, params): TRUE iff a row was deleted.
Delete(prompt, params) ==
    LET hash_key == CalculateHash(prompt, params)
    IN  /\ clast.op = "none"
        /\ rows' = DeleteHash(rows, hash_key)
        /\ clast' = Call("delete", "", <<>>, None, None, None, 0,
                         IdxOf(rows, hash_key) # {}, FALSE, None)
        /\ fill' = IF IdxOf(rows, hash_key) = {} THEN fill ELSE NoFill
        /\ UNCHANGED <<now, size_limit, age_limit, storageVars, serviceVars, libVars>>

\* ResponseCache.clear(): the number of rows deleted.
Clear ==
    /\ clast.op = "none"
    /\ rows' = <<>>
    /\ clast' = Call("clear", "", <<>>, None, None, None, 0, Len(rows),
                     FALSE, None)
    /\ fill' = EmptyFill
    /\ UNCHANGED <<now, size_limit, age_limit, storageVars, serviceVars, libVars>>

\* The environment damages the stored payload of a row (the cache itself
\* only ever writes json.dumps output); one row is damaged at a time.
Corrupt(i, damage) ==
    /\ clast.op = "none"
    /\ i \in 1..Len(rows)
    /\ \A j \in 1..Len(rows) : rows[j].response.wf
    /\ rows' = [rows EXCEPT ![i].response = damage]
    /\ UNCHANGED clast
    /\ UNCHANGED <<now, size_limit, age_limit, fill, storageVars, serviceVars, libVars>>

\* The caller is done with the result of the last call.
ReturnCache ==
    /\ clast.op # "none"
    /\ clast' = NoCall
    /\ UNCHANGED <<rows, now, size_limit, age_limit, fill, storageVars, serviceVars, libVars>>

NextCache ==
    \/ Tick
    \/ \E p \in Prompts, m \in ParamMaps, r \in Responses : Set(p, m, r, None)
    \/ \E p \in Prompts, m \in ParamMaps : Get(p, m)
    \/ \E p \in Prompts, m \in {SortKeys(x) : x \in ParamMaps} : Delete(p, m)
    \/ Clear
    \/ \E i \in 1..Len(rows), d \in Damages : Corrupt(i, d)
    \/ ReturnCache

(***************************************************************************)
(* Calls of QuestionValidator (quizcraft/questions/validator.py)           *)
(***************************************************************************)

\* vlast describes the validator call that has returned: its argument and
\* what it returned; for a validate_question of the copy fix_common_issues
\* returned also the question that was fixed; NoVCall once the caller is
\* done with it.
NoVCall == [op |-> "none"]

NoXCall == [op |-> "none"]

NoPCall == [op |-> "none"]

\* No call of the client, the AI service, the question-set builder, the text
\* utilities or the grouping has returned yet.
NoECall == [op |-> "none"]

\* The processes that share one cache database file.
ClientIds == {"c1", "c2"}

\* No client is inside a cache call.
NoClients == [c \in ClientIds |-> [pc |-> "idle"]]

IdleExt ==
    /\ rlast = NoECall /\ alast = NoECall /\ jlast = NoECall /\ glast = NoECall
    /\ hlast = NoECall /\ olast = NoECall /\ tlast = NoECall
    /\ clients = NoClients

IdleLib == vlast = NoVCall /\ xlast = NoXCall /\ plast = NoPCall /\ IdleExt

\* "What is it": long enough, no question mark.
NoMarkText == Text(<<"W", "h", "a", "t", " ", "i", "s", " ", "i", "t">>)

\* "Why so" followed by n blanks.
PaddedText(n) == Text(<<"W", "h", "y", " ", "s", "o">> \o Repeat(" ", n))

ValidatorTexts ==
    {GoodText, ShortText, NoMarkText} \cup {PaddedText(n) : n \in 0..MaxPad}

\* The options dicts of the validator calls: a text for each key of a set
\* of upper-case letters, lower-case keys, and a blank option text.
OptionsOf(keys) == [k \in keys |-> "Option"]

KeySets ==
    (SUBSET Range(SubSeq(AllKeys, 1, MaxOptionCount))) \ {{}}

ValidatorOptions ==
    {OptionsOf(keys) : keys \in KeySets}
        \cup {OptionsOf({"a", "b"}), [A |-> "Option", B |-> " "]}

ValidatorAnswers == {Str("A"), Str("B"), Str("a")}

\* The question of a validator call: text, options and correct answer, the
\* other fields None.
ValidatorQuestion(text, options, answer) ==
    Question(text, options, answer, None, None, None, None, None)

\* validator.validate_question(question); source is the question this one
\* is the fixed copy of, None for any other.
Validated(question, source) ==
    LET errors == ValidateQuestion(question)
    IN  [op |-> "validate_question", question |-> question,
         source |-> source,
         ret |-> [is_valid |-> errors = <<>>, errors |-> errors]]

ValidateQuestionCall(question) ==
    /\ vlast' = Validated(question, None)
    /\ UNCHANGED <<xlast, plast, cacheVars, storageVars, serviceVars, extVars>>

\* validator.fix_common_issues(question)
FixCommonIssuesCall(question) ==
    /\ vlast' = [op |-> "fix_common_issues", question |-> question,
                 ret |-> FixCommonIssues(question)]
    /\ UNCHANGED <<xlast, plast, cacheVars, storageVars, serviceVars, extVars>>

\* validator.validate_question(fixed), fixed being the copy the
\* fix_common_issues call has just returned.
ValidateFixed ==
    /\ vlast.op = "fix_common_issues"
    /\ vlast' = Validated(vlast.ret.question, vlast.question)
    /\ UNCHANGED <<xlast, plast, cacheVars, storageVars, serviceVars, extVars>>

\* The caller is done with the result of the validator call.
ReturnValidator ==
    /\ vlast # NoVCall
    /\ vlast' = NoVCall
    /\ UNCHANGED <<xlast, plast, cacheVars, storageVars, serviceVars, extVars>>

ValidatorQuestions ==
    {ValidatorQuestion(text, options, answer) :
        text \in ValidatorTexts, options \in ValidatorOptions,
        answer \in ValidatorAnswers}

\* Calls do not overlap: one starts when the last has returned.
NextValidator ==
    \/ /\ vlast = NoVCall
       /\ \E question \in ValidatorQuestions :
             ValidateQuestionCall(question)
    \/ /\ vlast = NoVCall
       /\ \E question \in ValidatorQuestions : FixCommonIssuesCall(question)
    \/ ValidateFixed
    \/ ReturnValidator

(***************************************************************************)
(* Calls of QuestionExtractor (quizcraft/questions/extractor.py)           *)
(***************************************************************************)

\* The lines of a group text after its question line.  An option line is a
\* key, "." or ")" and a text; an answer line is "Answer:" or "Correct:" and
\* a key.  The texts hold no "?" and no marker; the text of the n-th line is
\* LineTexts[n].
OptionLine(key) == [kind |-> "option", key |-> key]
AnswerLine(key) == [kind |-> "answer", key |-> key]

LineTexts == <<"first", "second", "third", "fourth", "fifth">>

\* The first n keys of each style.
LineKeys(n) ==
    UNION {Range(SubSeq(keys, 1, Min(n, 5))) :
              keys \in {UpperKeys, LowerKeys, Digits}}

\* The lines of the extractor calls: up to MaxLines option lines, and after
\* them no marker or one, which names one key more than the option lines
\* have.
OptionTexts == SeqsUpTo({OptionLine(k) : k \in LineKeys(MaxKey)}, MaxLines)

GroupTexts ==
    {options \o marker :
        options \in OptionTexts,
        marker \in {<<>>} \cup {<<AnswerLine(k)>> : k \in LineKeys(MaxKey + 1)}}

\* option_patterns: the keys [A-E], [a-e] and [1-5] at the start of a line.
OptionPatterns == <<Range(UpperKeys), Range(LowerKeys), Range(Digits)>>

\* str.isdigit() on the one-character strings the model uses.
IsDigit(k) == k \in Range(Digits)

\* chr(64 + int(key))
Chr64(k) == UpperKeys[Place(Digits, k)]

\* key.upper(), then a numeric key converted to a letter.
Standardize(k) == IF IsDigit(Upper(k)) THEN Chr64(Upper(k)) ELSE Upper(k)

\* The matches of one option pattern, in the order of the lines.
PatternMatches(lines, pattern) ==
    LET hits == SelectSeq([n \in 1..Len(lines) |-> n],
                    LAMBDA n : /\ lines[n].kind = "option"
                               /\ lines[n].key \in OptionPatterns[pattern])
    IN  [j \in 1..Len(hits) |->
            [key |-> Standardize(lines[hits[j]].key),
             value |-> LineTexts[hits[j]]]]

\* option_matches: for pattern in option_patterns: for line in lines
OptionMatches(lines) ==
    PatternMatches(lines, 1) \o PatternMatches(lines, 2)
        \o PatternMatches(lines, 3)

\* The dict filled with the matches in order: its keys in insertion order
\* and the value the last match of each key gave.
DictOf(matches) ==
    LET firsts == SelectSeq([j \in 1..Len(matches) |-> j],
                      LAMBDA j : \A i \in 1..(j - 1) :
                                    matches[i].key # matches[j].key)
        last(k) == CHOOSE j \in 1..Len(matches) :
                      /\ matches[j].key = k
                      /\ \A i \in (j + 1)..Len(matches) : matches[i].key # k
    IN  [order |-> [j \in 1..Len(firsts) |-> matches[firsts[j]].key],
         value |-> [k \in {matches[j].key : j \in 1..Len(matches)} |->
                       matches[last(k)].value]]

\* _extract_options on the lines after the question line.
ExtractOptions(lines) ==
    LET option_matches == OptionMatches(lines)
        letter_options == SelectSeq(option_matches,
                              LAMBDA m : ~IsDigit(m.key))
    IN  DictOf(IF letter_options # <<>> THEN letter_options
               ELSE option_matches)

\* Mutant of ExtractCorrectAnswer: the key of the marker is returned whether
\* or not it is an option key.
ExtractCorrectAnswerUnchecked(lines, options) ==
    LET markers == SelectSeq(lines, LAMBDA l : l.kind = "answer")
        upper == Upper(markers[1].key)
        answer == IF IsDigit(upper) THEN Chr64(upper) ELSE upper
    IN  IF markers # <<>> THEN Str(answer)
        ELSE IF options.order # <<>> THEN Str(options.order[1])
        ELSE None

\* _extract_correct_answer: re.search finds the first marker of the text.
ExtractCorrectAnswer(lines, options) ==
    LET markers == SelectSeq(lines, LAMBDA l : l.kind = "answer")
        upper == Upper(markers[1].key)
        answer == IF IsDigit(upper) THEN Chr64(upper) ELSE upper
    IN  IF markers # <<>> /\ answer \in DOMAIN options.value
        THEN Str(answer)
        ELSE IF options.order # <<>> THEN Str(options.order[1])
        ELSE None

\* _parse_question_group on a group text with the question line text (None
\* without a line holding "?") followed by the lines.
ParseQuestionGroup(text, lines) ==
    LET options == ExtractOptions(lines)
    IN  IF text = None THEN None
        ELSE IF Len(options.order) < 2 THEN None
        ELSE Question(text, options.value,
                      ExtractCorrectAnswer(lines, options), None, Num(1),
                      Str("group text"), None, None)

\* xlast describes the extractor call that has returned: its arguments,
\* the options dict it built and what it returned; NoXCall once the caller
\* is done with it.
ExtractOptionsCall(lines) ==
    /\ xlast' = [op |-> "extract_options", lines |-> lines,
                 ret |-> ExtractOptions(lines)]
    /\ UNCHANGED <<vlast, plast, cacheVars, storageVars, serviceVars, extVars>>

ParseQuestionGroupCall(text, lines) ==
    /\ xlast' = [op |-> "parse_question_group", text |-> text,
                 lines |-> lines, options |-> ExtractOptions(lines),
                 ret |-> ParseQuestionGroup(text, lines)]
    /\ UNCHANGED <<vlast, plast, cacheVars, storageVars, serviceVars, extVars>>

\* The caller is done with the result of the extractor call.
ReturnExtractor ==
    /\ xlast # NoXCall
    /\ xlast' = NoXCall
    /\ UNCHANGED <<vlast, plast, cacheVars, storageVars, serviceVars, extVars>>

\* Calls do not overlap: one starts when the last has returned.
NextExtractor ==
    \/ /\ xlast = NoXCall
       /\ \E lines \in OptionTexts : ExtractOptionsCall(lines)
    \/ /\ xlast = NoXCall
       /\ \E text \in {None, GoodText, ShortText}, lines \in GroupTexts :
             ParseQuestionGroupCall(text, lines)
    \/ ReturnExtractor

(***************************************************************************)
(* _classify_content (quizcraft/pdf/extractor.py)                          *)
(***************************************************************************)

\* A text as _classify_content sees it: pad blanks around a core of len
\* characters, the core's first and last character (a letter, a bullet
\* mark, ":" or "?"; "bullet" is the character U+2022), whether
\* str.isupper() holds of it and whether it holds a "?".
PdfText(pad, len, first, last, upper, qmark) ==
    [pad |-> pad, len |-> len, first |-> first, last |-> last,
     upper |-> upper, qmark |-> qmark]

Bullets == {"bullet", "-", "*"}

\* The texts of the calls: blank ones, and cores of 2 characters and around
\* the limit.  A "?" at an end is a "?" in the text; a core of two marks has
\* no cased character and is not upper-case.
PdfTexts ==
    {PdfText(pad, 0, " ", " ", FALSE, FALSE) : pad \in {0, 2}}
        \cup {t \in {PdfText(pad, len, first, last, upper, qmark) :
                        pad \in {0, 2},
                        len \in {2, ShortLimit - 1, ShortLimit,
                                 ShortLimit + 1},
                        first \in Bullets \cup {"letter"},
                        last \in {":", "?", "letter"},
                        upper \in BOOLEAN, qmark \in BOOLEAN} :
                 /\ t.last = "?" => t.qmark
                 /\ (t.len = 2 /\ t.first # "letter" /\ t.last # "letter")
                        => ~t.upper
                 /\ (t.len = 2 /\ t.last # "?") => ~t.qmark}

\* text.strip()
StripText(text) == [text EXCEPT !.pad = 0]

\* _classify_content(text)
ClassifyContent(text) ==
    LET t == StripText(text)
    IN  IF t.len = 0 THEN "empty"
        ELSE IF (t.len < ShortLimit /\ t.last = ":") \/ t.upper
        THEN "heading"
        ELSE IF t.qmark THEN "potential_question"
        ELSE IF t.first \in Bullets THEN "bullet_point"
        ELSE "paragraph"

\* plast describes the _classify_content call that has returned; NoPCall
\* once the caller is done with it.
ClassifyContentCall(text) ==
    /\ plast = NoPCall
    /\ plast' = [op |-> "classify_content", text |-> text,
                 ret |-> ClassifyContent(text)]
    /\ UNCHANGED <<vlast, xlast, cacheVars, storageVars, serviceVars, extVars>>

\* The caller is done with the result of the call.
ReturnClassify ==
    /\ plast # NoPCall
    /\ plast' = NoPCall
    /\ UNCHANGED <<vlast, xlast, cacheVars, storageVars, serviceVars, extVars>>

NextClassify ==
    \/ \E text \in PdfTexts : ClassifyContentCall(text)
    \/ ReturnClassify

\* A cache under test; the storage and the service stay as constructed.
CacheStart == InitCache /\ IdleStorage /\ IdleService /\ IdleLib

SpecCache == CacheStart /\ [][NextCache]_vars

\* The cache of a specification that makes no cache call: the defaults.
IdleCache ==
    /\ rows = <<>>
    /\ now = 0
    /\ size_limit = DEFAULT_CACHE_SIZE_LIMIT
    /\ age_limit = DEFAULT_CACHE_AGE_LIMIT
    /\ clast = NoCall
    /\ fill = EmptyFill

\* A storage under test; the cache and the service stay as constructed.
StorageStart == InitStorage /\ IdleCache /\ IdleService /\ IdleLib

SpecStorage == StorageStart /\ [][NextStorage]_vars

\* A service with its storage; the cache stays as constructed.
ServiceStart == InitService /\ IdleStorage /\ IdleCache /\ IdleLib

SpecService == ServiceStart /\ [][NextService]_vars

\* A validator with the default configuration; the stores and the service
\* stay as constructed.
ValidatorStart == IdleLib /\ IdleCache /\ IdleStorage /\ IdleService

SpecValidator == ValidatorStart /\ [][NextValidator]_vars

\* An extractor; the stores and the service stay as constructed.
ExtractorStart == IdleLib /\ IdleCache /\ IdleStorage /\ IdleService

SpecExtractor == ExtractorStart /\ [][NextExtractor]_vars

\* Calls of _classify_content; the stores and the service stay as
\* constructed.
ClassifyStart == IdleLib /\ IdleCache /\ IdleStorage /\ IdleService

SpecClassify == ClassifyStart /\ [][NextClassify]_vars

PresentHashes == {rows[i].hash : i \in 1..Len(rows)}

\* C1: size eviction.  Starting from an empty cache with size_limit = S >= 1,
\* after set has been called for n distinct keys (and nothing else changed
\* the table) exactly min(n, S) entries are present, so S of S + k, and no
\* missing entry has a later timestamp than a present one: the k missing
\* entries are the k oldest by timestamp.
C1_SizeEviction ==
    (fill.pure /\ size_limit >= 1) =>
        LET missing == {e \in fill.log : e.hash \notin PresentHashes}
        IN  /\ Len(rows) = Min(Cardinality(fill.log), size_limit)
            /\ PresentHashes \subseteq {e.hash : e \in fill.log}
            /\ Cardinality(missing) = Cardinality(fill.log) - Len(rows)
            /\ \A m \in missing : \A i \in 1..Len(rows) :
                    m.timestamp <= rows[i].timestamp

\* C1 witness: S + 2 distinct keys set into a cache of limit S >= 1, at
\* different timestamps.
C1_Witness ==
    /\ fill.pure
    /\ size_limit >= 1
    /\ clast.op = "set"
    /\ Cardinality(fill.log) = size_limit + 2
    /\ \E a, b \in fill.log : a.timestamp < b.timestamp

\* C2: age expiry boundary.  For an entry set at time T (and not damaged
\* since) in a cache with age_limit = L, get for its key at T + L - 1 returns
\* the stored response, and get at T + L + 1 returns absent.
C2_AgeBoundary ==
    (clast.op = "get" /\ clast.found # None
        /\ clast.found.response # BadUtf8) =>
        /\ (now = clast.found.set_at + 2 * (age_limit - 1)
                /\ clast.found.response.wf)
            => (clast.ret = clast.found.response.val /\ ~clast.raised
                /\ Lookup(rows, clast.hash) = clast.found)
        /\ (now = clast.found.set_at + 2 * (age_limit + 1))
            => (clast.ret = None /\ ~clast.raised)

\* C2 witness: a get at T + L + 1 for an entry set at a time T that is not
\* a whole second.
C2_Witness ==
    /\ clast.op = "get"
    /\ clast.found # None
    /\ clast.found.set_at % 2 = 1
    /\ now = clast.found.set_at + 2 * (age_limit + 1)
    /\ clast.ret = None

\* C3: eager expiry.  A get that finds (fetches) an entry whose age exceeds
\* age_limit returns absent and removes the entry's row: the number of rows
\* drops by one and the key has no row after the get.
C3_EagerExpiry ==
    (clast.op = "get" /\ clast.found # None
        /\ clast.found.response # BadUtf8
        /\ now - 2 * clast.found.timestamp > 2 * age_limit) =>
        /\ clast.ret = None
        /\ ~clast.raised
        /\ clast.hash \notin PresentHashes
        /\ Len(rows) = clast.n0 - 1

\* C3 witness: a get found an expired entry among two rows.
C3_Witness ==
    /\ clast.op = "get"
    /\ clast.found # None
    /\ now - 2 * clast.found.timestamp > 2 * age_limit
    /\ clast.n0 = 2

C5_CorruptIsMiss ==
    (clast.op = "get" /\ clast.found # None /\ ~clast.found.response.wf) =>
        (clast.ret = None /\ ~clast.raised)

\* C6: store_questions is all-or-nothing.  If inserting any question of the
\* batch fails (a question whose correct_answer is missing, or the write
\* lock being held), the error is raised to the caller and the stored rows
\* are the same as before the call; a batch that does not raise appends one
\* row per question.
C6_AllOrNothing ==
    qlast.op = "store_questions" =>
        /\ (\/ qlast.lock /\ qlast.questions # <<>>
            \/ \E i \in 1..Len(qlast.questions) :
                  qlast.questions[i].correct_answer = None) => qlast.raised
        /\ qlast.raised => table = qlast.before
        /\ ~qlast.raised =>
              /\ Len(table) = Len(qlast.before) + Len(qlast.questions)
              /\ SubSeq(table, 1, Len(qlast.before)) = qlast.before
              /\ Len(qlast.ret.ids) = Len(qlast.questions)

\* C6 witness: a batch whose second question has no correct_answer, stored
\* into a non-empty table with the lock free, has raised.
C6_Witness ==
    /\ qlast.op = "store_questions"
    /\ qlast.raised
    /\ ~qlast.lock
    /\ qlast.before # <<>>
    /\ Len(qlast.questions) = 2
    /\ qlast.questions[1].correct_answer # None
    /\ qlast.questions[2].correct_answer = None

\* A filter is supplied when the argument is given (not None).
SuppliedMatch(row, category, difficulty, source_file) ==
    /\ category # None => row.category = category
    /\ difficulty # None => row.difficulty = difficulty
    /\ source_file # None => row.source_file = source_file

Occurrences(s, x) == Cardinality({i \in 1..Len(s) : s[i] = x})

\* C7: filtering is conjunctive.  get_questions without limit returns
\* exactly the stored questions that match every supplied filter, and
\* count_questions with the same filters returns the number of those rows.
C7_ConjunctiveFilters ==
    LET hits == {i \in 1..Len(table) :
                    SuppliedMatch(table[i], qlast.category, qlast.difficulty,
                                  qlast.source_file)}
    IN  /\ (qlast.op = "get_questions" /\ qlast.limit = None) =>
              /\ Len(qlast.ret) = Cardinality(hits)
              /\ \A i \in hits :
                    Occurrences(qlast.ret, original[table[i].id]) =
                        Cardinality({j \in hits : original[table[j].id] =
                                                  original[table[i].id]})
        /\ qlast.op = "count_questions" => qlast.ret = Cardinality(hits)

\* C8: for every non-negative integer limit n that is given, get_questions
\* returns at most n questions.
C8_LimitBounds ==
    (qlast.op = "get_questions" /\ qlast.limit # None) =>
        Len(qlast.ret) <= qlast.limit.num

\* C9: store/get round trip.  get_question of the id a store returned gives
\* a Question with the same eight fields as the question stored, and
\* get_question of an id that was never stored or was deleted returns
\* absent.
C9_RoundTrip ==
    qlast.op = "get_question" =>
        /\ qlast.id \in DOMAIN original => qlast.ret = original[qlast.id]
        /\ (qlast.id > seq \/ qlast.id \in deleted) => qlast.ret = None

\* C9 witness: get_question of a stored question with all fields set, after
\* another row was deleted.
C9_Witness ==
    /\ qlast.op = "get_question"
    /\ qlast.id \in DOMAIN original
    /\ original[qlast.id].explanation # None
    /\ original[qlast.id].source_page # None
    /\ deleted # {}

\* C10: the AI-fallback trigger.  Within one extract_questions_from_segments
\* request generate_response is called exactly once if the AI fallback is
\* enabled and fewer than 5 questions were pattern-extracted, and is not
\* called at all otherwise (then ai_extracted stays 0).
C10_FallbackTrigger ==
    slast.op = "extract" =>
        IF use_ai_fallback /\ slast.stats.pattern_extracted < 5
        THEN slast.calls = 1
        ELSE slast.calls = 0 /\ slast.stats.ai_extracted = 0

\* C10 witness: a request with the fallback enabled and four pattern
\* questions has called the model once and got two questions from it.
C10_Witness ==
    /\ slast.op = "extract"
    /\ use_ai_fallback
    /\ slast.stats.pattern_extracted = 4
    /\ slast.calls = 1
    /\ slast.stats.ai_extracted = 2

\* The rows after the request are the rows before it followed by one row
\* per question, in order, each with the source file.
Persisted(before, after, questions, source_file) ==
    /\ Len(after) = Len(before) + Len(questions)
    /\ SubSeq(after, 1, Len(before)) = before
    /\ \A i \in 1..Len(questions) :
           /\ RowToQuestion(after[Len(before) + i]) = questions[i]
           /\ after[Len(before) + i].source_file = source_file

C12_FallbackUsesCache ==
    slast.op = "extract" =>
        /\ (slast.calls = 1 /\ ~slast.failed) => Len(rows) > 0
        /\ slast.repeated => slast.calls = 0

\* C13: the extraction statistics sum consistently.  In the pair a request
\* returns, the number of questions equals pattern_extracted + ai_extracted
\* - invalid_questions.
C13_StatsSum ==
    (slast.op = "extract" /\ ~slast.raised) =>
        Len(slast.questions) =
            slast.stats.pattern_extracted + slast.stats.ai_extracted
                - slast.stats.invalid_questions

\* C13 witness: a request has returned three questions out of three pattern
\* questions and two of the model, one of each being invalid.
C13_Witness ==
    /\ slast.op = "extract"
    /\ ~slast.raised
    /\ slast.stats.pattern_extracted = 3
    /\ slast.stats.ai_extracted = 2
    /\ slast.stats.invalid_questions = 2
    /\ slast.questions = <<ValidPattern, ValidPattern, FromDict(GoodData)>>

\* C14: the persistence step.  The merged question set is written to the
\* storage if and only if a source file is given: then stored_questions is
\* the number of questions returned and the new rows are these questions,
\* each with that source_file; without a source file the table is
\* unchanged and stored_questions = 0.
C14_PersistIffSourceFile ==
    (slast.op = "extract" /\ ~slast.raised) =>
        IF Truthy(slast.source_file)
        THEN /\ slast.stats.stored_questions = Len(slast.questions)
             /\ Persisted(slast.before, table, slast.questions,
                          slast.source_file)
        ELSE /\ slast.stats.stored_questions = 0
             /\ table = slast.before

\* C14 witness: a request with a source file has added its three questions
\* to a table that had rows.
C14_Witness ==
    /\ slast.op = "extract"
    /\ ~slast.raised
    /\ slast.source_file = Str("test.pdf")
    /\ slast.stats.stored_questions = 3
    /\ slast.stats.ai_extracted = 1
    /\ slast.before # <<>>
    /\ Len(table) = Len(slast.before) + 3

\* C15: the validator repair round trip.  For every question whose only
\* validation error is the missing trailing question mark, validate_question
\* of the copy fix_common_issues returns gives is_valid = True and no
\* errors.
C15_RepairRoundTrip ==
    (/\ vlast.op = "validate_question"
     /\ vlast.source # None
     /\ ValidateQuestion(vlast.source) = <<Err("no_question_mark", "")>>) =>
        vlast.ret.is_valid /\ vlast.ret.errors = <<>>

\* The question is well formed but for the number of its options: a text
\* of at least 10 characters ending with "?", distinct keys of one
\* upper-case letter, non-empty option texts, the correct answer among the
\* keys.
WellFormed(question) ==
    /\ TextErrors(question) = <<>>
    /\ DOMAIN question.options \in KeySets
    /\ \A k \in DOMAIN question.options :
           ~BlankOption(question.options[k])
    /\ question.correct_answer.str \in DOMAIN question.options

\* C16: the option-count bounds.  With the default configuration
\* validate_question accepts every otherwise well-formed question with 2 to
\* 6 options and rejects every question with fewer or more.
C16_OptionCountBounds ==
    vlast.op = "validate_question" =>
        LET n == Cardinality(DOMAIN vlast.question.options)
        IN  /\ (WellFormed(vlast.question) /\ n >= 2 /\ n <= 6)
                   => vlast.ret.is_valid
            /\ (n < 2 \/ n > 6) => ~vlast.ret.is_valid

\* The places of the option lines with an alphabetic or a numeric key.
AlphabeticLines(lines) ==
    {n \in 1..Len(lines) :
        lines[n].kind = "option" /\ ~IsDigit(lines[n].key)}

NumericLines(lines) ==
    {n \in 1..Len(lines) : lines[n].kind = "option" /\ IsDigit(lines[n].key)}

\* The lines with every numeric option key k replaced by the k-th letter.
KeyedByLetters(lines) ==
    [n \in 1..Len(lines) |->
        IF n \in NumericLines(lines)
        THEN OptionLine(UpperKeys[Place(Digits, lines[n].key)])
        ELSE lines[n]]

\* C17: option keys in _extract_options.  With an alphabetic-keyed option
\* line every numeric-keyed match is discarded: the mapping holds only the
\* texts of alphabetic-keyed lines.  Without one, the numeric keys 1..5 are
\* remapped to A..E and the lines give the mapping the same lines keyed by
\* these letters give.
C17_NumericKeysDiscarded ==
    xlast.op = "extract_options" =>
        LET options == xlast.ret.value
        IN  IF AlphabeticLines(xlast.lines) # {}
            THEN \A k \in DOMAIN options :
                     \E n \in AlphabeticLines(xlast.lines) :
                         options[k] = LineTexts[n]
            ELSE /\ xlast.ret = ExtractOptions(KeyedByLetters(xlast.lines))
                 /\ \A n \in NumericLines(xlast.lines) :
                        UpperKeys[Place(Digits, xlast.lines[n].key)]
                            \in DOMAIN options

\* C18: the questions of the extractor.  A Question parsed from a group has
\* a non-empty question_text, at least 2 options and a correct_answer that
\* is a key of its options; a group without question text or with fewer
\* than 2 options yields no Question.
C18_ExtractedQuestionShape ==
    xlast.op = "parse_question_group" =>
        /\ xlast.ret # None =>
               /\ Truthy(xlast.ret.question_text)
               /\ Cardinality(DOMAIN xlast.ret.options) >= 2
               /\ xlast.ret.correct_answer # None
               /\ xlast.ret.correct_answer.str \in DOMAIN xlast.ret.options
        /\ (xlast.text = None
                \/ Cardinality(DOMAIN xlast.options.value) < 2)
               => xlast.ret = None

\* C18 witness: a group with the options A and B and the marker "Answer: C"
\* has given a Question with the correct answer A.
C18_Witness ==
    /\ xlast.op = "parse_question_group"
    /\ xlast.ret # None
    /\ DOMAIN xlast.ret.options = {"A", "B"}
    /\ xlast.lines[Len(xlast.lines)] = AnswerLine("C")
    /\ xlast.ret.correct_answer = Str("A")

\* C19: the correct answer of the extractor.  With a marker whose key
\* (numeric remapped to letter) is among the options, correct_answer is that
\* key; without a marker, correct_answer is the first option key, the key of
\* the earliest option line of the text.
C19_CorrectAnswerSelection ==
    (xlast.op = "parse_question_group" /\ xlast.ret # None) =>
        LET lines == xlast.lines
            markers == {n \in 1..Len(lines) : lines[n].kind = "answer"}
            earliest == CHOOSE n \in 1..Len(lines) :
                            /\ lines[n].kind = "option"
                            /\ \A i \in 1..(n - 1) : lines[i].kind # "option"
        IN  /\ \A n \in markers :
                   Standardize(lines[n].key) \in DOMAIN xlast.ret.options
                       => xlast.ret.correct_answer
                              = Str(Standardize(lines[n].key))
            /\ markers = {} =>
                   xlast.ret.correct_answer
                       = Str(Standardize(lines[earliest].key))

\* C20: content classification follows the priority empty > heading >
\* potential_question > bullet_point > paragraph, a text being a heading
\* only if it is short (under 100 characters) and either ends with ":" or
\* is fully upper-case: a short upper-case text with a "?" is a heading, a
\* text that is not short never is.
C20_ClassificationPriority ==
    plast.op = "classify_content" =>
        LET t == plast.text
            short == t.len < 100
        IN  plast.ret =
                IF t.len = 0 THEN "empty"
                ELSE IF short /\ (t.last = ":" \/ t.upper) THEN "heading"
                ELSE IF t.qmark THEN "potential_question"
                ELSE IF t.first \in Bullets THEN "bullet_point"
                ELSE "paragraph"

\* C27: every question extract_questions_from_segments returns, and so
\* every question it persists, passes validate_question with the default
\* validator.
C27_ReturnedQuestionsValid ==
    (slast.op = "extract" /\ ~slast.raised) =>
        /\ \A i \in 1..Len(slast.questions) :
               /\ ~ValidateRaises(slast.questions[i])
               /\ ValidateQuestion(slast.questions[i]) = <<>>
        /\ \A i \in (Len(slast.before) + 1)..Len(table) :
               ValidateQuestion(RowToQuestion(table[i])) = <<>>

\* C27 witness: a request with a source file has dropped an invalid pattern
\* question and an invalid question of the model and stored the two valid
\* ones.
C27_Witness ==
    /\ slast.op = "extract"
    /\ ~slast.raised
    /\ slast.stats.pattern_extracted = 2
    /\ slast.stats.ai_extracted = 2
    /\ slast.stats.invalid_questions = 2
    /\ slast.stats.stored_questions = 2
    /\ Len(table) = Len(slast.before) + 2

(***************************************************************************)
(* ClaudeClient.generate_response: the retry loop of                       *)
(* _make_api_call_with_retry, one loop iteration per step.                 *)
(***************************************************************************)

MAX_RETRIES == 3
BASE_RETRY_DELAY == 1

\* The variables no call of this part of the program touches.
baseVars == <<cacheVars, storageVars, serviceVars, vlast, xlast, plast>>

\* What one messages.create call can do: answer, or raise one of the three
\* errors the loop catches, or raise something else.
Retryable == {"RateLimitError", "APIError", "RequestException"}
ApiOutcomes == {"ok", "Other"} \cup Retryable

\* The prompts of a call: blank ones fail _validate_input.
ClientPrompts == {<<>>, <<" ">>, <<"p">>, <<"q", " ">>}

\* _calculate_delay(attempt), in tenths of a second (jitter 0.1).
CalculateDelay(attempt) == BASE_RETRY_DELAY * 10 * (2 ^ attempt) + attempt

\* Mutant of InRange: one iteration more.
InRangeOneMore(attempt) == attempt <= MAX_RETRIES

\* for attempt in range(MAX_RETRIES): the loop has an iteration for attempt.
InRange(attempt) == attempt < MAX_RETRIES

\* _handle_api_error / _handle_network_error: TRUE when the handler sleeps
\* and returns True, FALSE when it raises RuntimeError.
HandlerRetries(attempt) == attempt < MAX_RETRIES - 1

\* generate_response(prompt): _validate_input, then the loop is entered.
GenerateResponse(prompt) ==
    /\ rlast' = IF prompt = <<>> \/ Strip(prompt) = <<>>
                THEN [op |-> "generate_response", prompt |-> prompt,
                      status |-> "raised", error |-> "ValueError",
                      attempt |-> 0, calls |-> 0, failures |-> <<>>,
                      slept |-> 0, response |-> None]
                ELSE [op |-> "generate_response", prompt |-> prompt,
                      status |-> "running", error |-> "",
                      attempt |-> 0, calls |-> 0, failures |-> <<>>,
                      slept |-> 0, response |-> None]
    /\ UNCHANGED <<baseVars, alast, jlast, glast, hlast, olast, tlast, clients>>

\* The record after the handler of a caught error has run for rlast.attempt.
AfterFailure(call, outcome) ==
    LET failed == [call EXCEPT !.calls = @ + 1,
                               !.failures = Append(@, outcome)]
        slept == [failed EXCEPT !.slept = @ + CalculateDelay(call.attempt),
                                !.attempt = @ + 1]
        hard == [failed EXCEPT !.status = "raised", !.error = "RuntimeError"]
    IN  IF outcome = "RateLimitError" \/ HandlerRetries(call.attempt)
        THEN IF InRange(slept.attempt) THEN slept
             ELSE [slept EXCEPT !.status = "raised", !.error = "RuntimeError"]
        ELSE hard

\* One iteration of the loop: _execute_api_call and the except clauses.
ExecuteApiCall(outcome, response) ==
    /\ rlast.op = "generate_response"
    /\ rlast.status = "running"
    /\ rlast' =
         IF outcome = "ok"
         THEN [rlast EXCEPT !.calls = @ + 1, !.status = "returned",
                            !.response = response]
         ELSE IF outcome = "Other"
         THEN [rlast EXCEPT !.calls = @ + 1, !.status = "raised",
                            !.failures = Append(@, outcome),
                            !.error = "Other"]
         ELSE AfterFailure(rlast, outcome)
    /\ UNCHANGED <<baseVars, alast, jlast, glast, hlast, olast, tlast, clients>>

\* The caller has the response or the exception.
ReturnClient ==
    /\ rlast.op = "generate_response"
    /\ rlast.status # "running"
    /\ rlast' = NoECall
    /\ UNCHANGED <<baseVars, alast, jlast, glast, hlast, olast, tlast, clients>>

\* The loop takes its next iteration.
LoopStep == \E o \in ApiOutcomes, r \in Responses : ExecuteApiCall(o, r)

NextClient ==
    \/ /\ rlast = NoECall
       /\ \E p \in ClientPrompts : GenerateResponse(p)
    \/ LoopStep
    \/ ReturnClient

ClientStart == IdleCache /\ IdleStorage /\ IdleService /\ IdleLib

SpecClient == ClientStart /\ [][NextClient]_vars

\* messages.create answers or raises and time.sleep returns: a call that is
\* in the loop takes its next iteration.
SpecClientLive == SpecClient /\ WF_vars(LoopStep)

\* At most MAX_RETRIES calls; a response is the one of the first call that
\* did not raise; RuntimeError only after MAX_RETRIES failed calls.
RetrySafe ==
    rlast.op = "generate_response" =>
        /\ rlast.calls <= MAX_RETRIES
        /\ rlast.status = "returned" =>
               /\ rlast.response # None
               /\ Len(rlast.failures) = rlast.calls - 1
               /\ \A i \in 1..Len(rlast.failures) : rlast.failures[i] \in Retryable
        /\ rlast.error = "RuntimeError" =>
               /\ rlast.calls = MAX_RETRIES
               /\ Len(rlast.failures) = MAX_RETRIES
        /\ (rlast.status = "running" /\ rlast.calls = MAX_RETRIES) => FALSE

\* No call is made once the call has its response or its exception.
NoFurtherAttempt ==
    (rlast.op = "generate_response" /\ rlast.status # "running") =>
        (rlast'.op = "generate_response" => rlast'.calls = rlast.calls)

\* C21: for retryable failures generate_response makes at most MAX_RETRIES
\* API attempts, returns the response of the first successful attempt
\* without a further attempt, raises RuntimeError only after MAX_RETRIES
\* failed attempts, and always terminates.
C21_RetryProtocol ==
    /\ []RetrySafe
    /\ [][NoFurtherAttempt]_vars
    /\ (rlast.op = "generate_response" ~>
           (rlast.op = "generate_response" /\ rlast.status # "running"))

\* C21 witness: two calls failed, with a rate limit and a network error, and
\* the third call's response was returned.
C21_Witness ==
    /\ rlast.op = "generate_response"
    /\ rlast.status = "returned"
    /\ rlast.calls = MAX_RETRIES
    /\ rlast.failures = <<"RateLimitError", "RequestException">>

(***************************************************************************)
(* ClaudeClient.validate_and_fix_json_response on a text given by its      *)
(* pieces: fences, JSON objects, malformed braced text and prose.          *)
(***************************************************************************)

MaxPieces == 4

\* Three backticks, and three backticks followed by the word json (written
\* out here: a backtick cannot stand in a string).
Fence == "[fence]"
JsonFence == "[fence]json"
\* Two well-formed JSON objects, a braced text that is not JSON, prose
\* without braces or backticks, and the word left of a split json fence.
GoodObjects == {"{\"a\": 1}", "{\"b\": 2}"}
Malformed == "{bad}"
Prose == "prose"
JsonWord == "json"

Pieces == {Fence, JsonFence, Malformed, Prose} \cup GoodObjects

\* The contents of a response: up to MaxPieces pieces, separated by blanks.
Contents == SeqsUpTo(Pieces, MaxPieces)

ValueError == [error |-> "ValueError"]

\* json.loads of a text of pieces: the value of a single well-formed object
\* (blanks around it are accepted), JSONDecodeError for anything else.
JsonLoads(text) ==
    IF Len(text) = 1 /\ text[1] \in GoodObjects
    THEN [parsed |-> text[1]]
    ELSE JSONDecodeError

\* The positions of the pieces that hold three backticks.
FenceIdx(text) == {i \in 1..Len(text) : text[i] \in {Fence, JsonFence}}

\* The positions of the pieces that begin with "{" and end with "}".
BraceIdx(text) == {i \in 1..Len(text) : text[i] \in GoodObjects \cup {Malformed}}

First(S) == CHOOSE i \in S : \A j \in S : i <= j
Last(S) == CHOOSE i \in S : \A j \in S : j <= i

\* content.split(fence): the json fence is a fence followed by the word json.
RECURSIVE SplitFences(_)
SplitFences(text) ==
    IF FenceIdx(text) = {} THEN <<text>>
    ELSE LET i == First(FenceIdx(text))
             rest == SubSeq(text, i + 1, Len(text))
         IN  <<SubSeq(text, 1, i - 1)>> \o
             SplitFences(IF text[i] = JsonFence THEN <<JsonWord>> \o rest
                         ELSE rest)

\* block.strip() is non-empty, begins with "{" and ends with "}".
Braced(block) ==
    /\ block # <<>>
    /\ block[1] \in GoodObjects \cup {Malformed}
    /\ block[Len(block)] \in GoodObjects \cup {Malformed}

\* The three attempts inside the second try block: the first that applies
\* decides, and a JSONDecodeError of it ends the block.
ExtractEmbedded(content) ==
    LET json_idx == {i \in 1..Len(content) : content[i] = JsonFence}
        after == SubSeq(content, First(json_idx) + 1, Len(content))
        blocks == SplitFences(content)
        braced == {k \in 1..Len(blocks) : Braced(blocks[k])}
    IN  IF json_idx # {} /\ FenceIdx(after) # {}
        THEN JsonLoads(SubSeq(after, 1, First(FenceIdx(after)) - 1))
        ELSE IF FenceIdx(content) # {} /\ braced # {}
        THEN JsonLoads(blocks[First(braced)])
        ELSE IF BraceIdx(content) # {}
        THEN JsonLoads(SubSeq(content, First(BraceIdx(content)),
                              Last(BraceIdx(content))))
        ELSE JSONDecodeError

\* validate_and_fix_json_response(content): the parsed value or ValueError.
ValidateAndFixJsonResponse(content) ==
    IF JsonLoads(content) # JSONDecodeError THEN JsonLoads(content)
    ELSE IF ExtractEmbedded(content) # JSONDecodeError
         THEN ExtractEmbedded(content)
         ELSE ValueError

ValidateAndFixJsonResponseCall(content) ==
    /\ jlast' = [op |-> "validate_and_fix_json_response", content |-> content,
                 result |-> ValidateAndFixJsonResponse(content)]
    /\ UNCHANGED <<baseVars, rlast, alast, glast, hlast, olast, tlast, clients>>

ReturnJson ==
    /\ jlast # NoECall
    /\ jlast' = NoECall
    /\ UNCHANGED <<baseVars, rlast, alast, glast, hlast, olast, tlast, clients>>

NextJson ==
    \/ /\ jlast = NoECall
       /\ \E content \in Contents : ValidateAndFixJsonResponseCall(content)
    \/ ReturnJson

SpecJson == ClientStart /\ [][NextJson]_vars

\* C23: a content that holds a well-formed JSON object (bare, in a fence,
\* surrounded by prose, next to malformed fenced or braced text) is never
\* answered with the parse error: one of its objects is returned.
C23_RecoverableJsonReturned ==
    (/\ jlast.op = "validate_and_fix_json_response"
     /\ \E i \in 1..Len(jlast.content) : jlast.content[i] \in GoodObjects)
        => /\ jlast.result # ValueError
           /\ \E i \in 1..Len(jlast.content) :
                  jlast.result = [parsed |-> jlast.content[i]]

(***************************************************************************)
(* AIService.generate_questions: the cache lookup, the model call, the     *)
(* cache store and the parse of the content.                               *)
(***************************************************************************)

MaxWeeks == 1

\* The requests of the model: one context below the token limit, two
\* difficulties' worth of keys through the prefix (no prefix, an empty one,
\* a non-empty one).
AiContexts == {"c1"}
AiNumQuestions == {5}
AiDifficulties == {"medium"}
AiPrefixes == {None, Str(""), Str("a")}

AiRequests ==
    [context : AiContexts, num_questions : AiNumQuestions,
     difficulty : AiDifficulties, cache_key_prefix : AiPrefixes]

\* What generate_response does for the service: it raises after its
\* retries, or returns a response with one of these contents.
AiContents ==
    { <<"{\"a\": 1}">>, <<Prose, "{\"b\": 2}">>, <<Malformed>>, <<Prose>> }

RuntimeError == [error |-> "RuntimeError"]

AiReplies ==
    {RuntimeError} \cup {[content |-> c, usage |-> "usage"] : c \in AiContents}

\* question_generation_prompt.construct: the template filled with the
\* context (unchanged by optimize_context below the token limit) and the
\* keyword arguments.
ConstructUserPrompt(request) ==
    <<"Create", request.num_questions, request.difficulty, request.context>>

\* cache_params: model, num_questions, difficulty and, if truthy, the prefix.
CacheParams(request) ==
    << [k |-> "model", v |-> "haiku"],
       [k |-> "num_questions", v |-> request.num_questions],
       [k |-> "difficulty", v |-> request.difficulty] >> \o
    (IF Truthy(request.cache_key_prefix)
     THEN <<[k |-> "cache_key_prefix", v |-> request.cache_key_prefix]>>
     ELSE <<>>)

AiKey(request) == CalculateHash(ConstructUserPrompt(request), CacheParams(request))

\* Mutant of CacheSet: the response is not stored.
CacheSetDropped(rs, prompt, params, response, t) == rs

\* ResponseCache.set at the half second t: the table after it.
CacheSet(rs, prompt, params, response, t) ==
    PruneCache(InsertOrReplace(rs,
        [hash |-> CalculateHash(prompt, params), prompt |-> prompt,
         response |-> Dumps(response), timestamp |-> IntTime(t),
         metadata |-> Dumps(<<>>), set_at |-> t]))

\* generate_questions(request) when generate_response would give reply:
\* the table after the call, whether the cache served it, the number of
\* model calls, the exception and the result.
GenerateQuestionsResult(rs, request, reply, t) ==
    LET prompt == ConstructUserPrompt(request)
        cache_params == CacheParams(request)
        got == GetResult(rs, prompt, cache_params, t)
        cached_response == got.ret
        stored == CacheSet(got.rows, prompt, cache_params, reply, t)
        Parsed(response) == ValidateAndFixJsonResponse(response.content)
        Out(table_, hit, calls, raised, result) ==
            [rows |-> table_, hit |-> hit, calls |-> calls,
             raised |-> raised, result |-> result]
    IN  IF got.raised THEN Out(got.rows, FALSE, 0, "cache", None)
        ELSE IF cached_response # None
        THEN IF Parsed(cached_response) = ValueError
             THEN Out(got.rows, TRUE, 0, "ValueError", None)
             ELSE Out(got.rows, TRUE, 0, "",
                      [questions |-> Parsed(cached_response),
                       token_usage |-> cached_response.usage,
                       from_cache |-> TRUE])
        ELSE IF reply = RuntimeError
        THEN Out(got.rows, FALSE, 1, "RuntimeError", None)
        ELSE IF Parsed(reply) = ValueError
        THEN Out(stored, FALSE, 1, "ValueError", None)
        ELSE Out(stored, FALSE, 1, "",
                 [questions |-> Parsed(reply), token_usage |-> reply.usage,
                  from_cache |-> FALSE])

\* The call record: prev is the call this one repeats at once, if any.
GenerateQuestions(request, reply, prev) ==
    LET out == GenerateQuestionsResult(rows, request, reply, now)
    IN  /\ rows' = out.rows
        /\ alast' = [op |-> "generate_questions", request |-> request,
                     reply |-> reply, hit |-> out.hit, calls |-> out.calls,
                     raised |-> out.raised, result |-> out.result,
                     prev |-> prev]
        /\ UNCHANGED <<now, size_limit, age_limit, clast, fill, storageVars,
                       serviceVars, vlast, xlast, plast,
                       rlast, jlast, glast, hlast, olast, tlast, clients>>

\* More than age_limit seconds pass between two requests.
AgeLimitPasses ==
    /\ alast = NoECall
    /\ now < MaxWeeks * (2 * age_limit + 2)
    /\ now' = now + 2 * age_limit + 2
    /\ UNCHANGED <<rows, size_limit, age_limit, clast, fill, storageVars,
                   serviceVars, libVars>>

ReturnAi ==
    /\ alast # NoECall
    /\ alast' = NoECall
    /\ UNCHANGED <<baseVars, rlast, jlast, glast, hlast, olast, tlast, clients>>

\* What a repeated call remembers of the call before it.
Summary(call) ==
    [hit |-> call.hit, calls |-> call.calls, raised |-> call.raised,
     result |-> call.result]

NextAi ==
    \/ /\ alast = NoECall
       /\ \E q \in AiRequests, r \in AiReplies : GenerateQuestions(q, r, None)
    \/ /\ alast # NoECall
       /\ alast.prev = None
       /\ \E r \in AiReplies : GenerateQuestions(alast.request, r, Summary(alast))
    \/ AgeLimitPasses
    \/ ReturnAi

SpecAi == ClientStart /\ [][NextAi]_vars

\* C22: a request whose key the cache holds makes no model call and has
\* from_cache = True; a miss makes exactly one model call, stores the
\* response under the key and has from_cache = False; the same request
\* repeated at once after a served miss is answered from the cache.
C22_CacheProtocol ==
    alast.op = "generate_questions" =>
        /\ alast.hit =>
               /\ alast.calls = 0
               /\ alast.result # None => alast.result.from_cache
        /\ (~alast.hit /\ alast.raised # "cache") =>
               /\ alast.calls = 1
               /\ alast.reply # RuntimeError =>
                      /\ Lookup(rows, AiKey(alast.request)) # None
                      /\ Lookup(rows, AiKey(alast.request)).response = Dumps(alast.reply)
               /\ alast.result # None => ~alast.result.from_cache
        /\ (alast.prev # None /\ alast.prev.result # None) =>
               /\ alast.hit /\ alast.calls = 0
               /\ alast.result # None
               /\ alast.result.from_cache
               /\ alast.result.questions = alast.prev.result.questions

\* C22 witness: a miss was served by one model call and the same request,
\* repeated at once, was served from the cache without a call.
C22_Witness ==
    /\ alast.op = "generate_questions"
    /\ alast.prev # None
    /\ ~alast.prev.hit /\ alast.prev.calls = 1 /\ alast.prev.result # None
    /\ alast.hit /\ alast.calls = 0
    /\ alast.result # None

\* C30: after generate_questions failed with a parse error on a fresh
\* response, the next identical request calls the model again.
C30_UnparseableNotCached ==
    (/\ alast.op = "generate_questions"
     /\ alast.prev # None
     /\ ~alast.prev.hit /\ alast.prev.raised = "ValueError")
        => ~alast.hit /\ alast.calls = 1

(***************************************************************************)
(* QuestionService.create_question_set over the questions table.           *)
(***************************************************************************)

MaxBuckets == 2
MaxCount == 3

\* A Python list argument (None is the omitted argument).
List(items) == [list |-> items]

\* The stored questions: two categories, two difficulties.
SetQuestions ==
    { Question(Str("What is Python?"), TwoOptions, Str("B"), None, None, None,
               Str("easy"), Str("Programming")),
      Question(Str("What is a class?"), TwoOptions, Str("A"), None, None, None,
               Str("hard"), Str("Programming")),
      Question(Str("What is a database?"), TwoOptions, Str("A"), None, None,
               None, Str("easy"), Str("Databases")) }

SetCategories == {Str(""), Str("Programming"), Str("Databases")}
SetDifficulties == {Str("easy"), Str("hard")}
SetSourceFiles == {None, Str("test.pdf"), Str("other.pdf")}

CategoryLists == {None} \cup {List(s) : s \in SeqsUpTo(SetCategories, MaxBuckets)}
DifficultyLists == {None} \cup {List(s) : s \in SeqsUpTo(SetDifficulties, MaxBuckets)}

\* if categories: a list that is given and not empty.
GivenList(l) == l # None /\ l.list # <<>>

Max(a, b) == IF a >= b THEN a ELSE b

\* max(1, count // len(buckets))
QuestionsPer(count, n) == Max(1, count \div n)

\* The result of the get_questions call of each bucket, in order.
BucketQueries(tbl, categories, difficulties, source_file, count) ==
    IF GivenList(categories)
    THEN [k \in 1..Len(categories.list) |->
            MapRows(SelectQuestions(tbl, categories.list[k], None, source_file,
                        Num(QuestionsPer(count, Len(categories.list)))))]
    ELSE IF GivenList(difficulties)
    THEN [k \in 1..Len(difficulties.list) |->
            MapRows(SelectQuestions(tbl, None, difficulties.list[k], source_file,
                        Num(QuestionsPer(count, Len(difficulties.list)))))]
    ELSE <<MapRows(SelectQuestions(tbl, None, None, source_file, Num(count)))>>

\* selected_questions.extend(...) over the queries.
RECURSIVE Extend(_, _)
Extend(results, k) ==
    IF k > Len(results) THEN <<>> ELSE results[k] \o Extend(results, k + 1)

\* Mutant of Truncate: the selection is not cut.
TruncateNever(selected, count) == selected

\* if len(selected_questions) > count: selected_questions[:count]
Truncate(selected, count) ==
    IF Len(selected) > count THEN SubSeq(selected, 1, count) ELSE selected

\* create_question_set: the queries it made and the QuestionSet it returns.
CreateQuestionSetResult(tbl, categories, difficulties, source_file, count) ==
    LET queries == BucketQueries(tbl, categories, difficulties, source_file, count)
        selected_questions == Truncate(Extend(queries, 1), count)
    IN  [queries |-> queries,
         questions |-> selected_questions,
         metadata |-> [source_file |-> source_file, categories |-> categories,
                       difficulties |-> difficulties,
                       total_questions |-> Len(selected_questions)]]

CreateQuestionSet(categories, difficulties, source_file, count) ==
    /\ glast' = [op |-> "create_question_set", categories |-> categories,
                 difficulties |-> difficulties, source_file |-> source_file,
                 count |-> count,
                 ret |-> CreateQuestionSetResult(table, categories, difficulties,
                                                 source_file, count)]
    /\ UNCHANGED <<baseVars, rlast, alast, jlast, hlast, olast, tlast, clients>>

ReturnQuestionSet ==
    /\ glast # NoECall
    /\ glast' = NoECall
    /\ UNCHANGED <<baseVars, rlast, alast, jlast, hlast, olast, tlast, clients>>

\* The calls of the model: one list is omitted, or both are short.
SetArguments ==
    {a \in [categories : CategoryLists, difficulties : DifficultyLists] :
        \/ a.categories = None
        \/ a.difficulties = None
        \/ Len(a.categories.list) + Len(a.difficulties.list) <= MaxBuckets}

NextQuestionSet ==
    \/ /\ glast = NoECall
       /\ \E q \in SetQuestions : StoreQuestion(q, Str("test.pdf"))
    \/ ReturnStorage
    \/ /\ glast = NoECall /\ qlast = NoQCall
       /\ \E a \in SetArguments, f \in SetSourceFiles, count \in 0..MaxCount : CreateQuestionSet(a.categories, a.difficulties, f, count)
    \/ ReturnQuestionSet

SpecQuestionSet == ClientStart /\ [][NextQuestionSet]_vars

\* The number of requested buckets of a call (0: neither list is given).
Buckets(call) ==
    IF GivenList(call.categories) THEN Len(call.categories.list)
    ELSE IF GivenList(call.difficulties) THEN Len(call.difficulties.list)
    ELSE 0

\* C24: with n requested categories (or, without categories, n requested
\* difficulties) and count >= 0, at most max(1, count // n) questions are
\* taken from each requested bucket, at most count questions are returned,
\* and metadata.total_questions is their number; with neither list the
\* result is that of one query bounded by count.
C24_QuestionSetBounds ==
    glast.op = "create_question_set" =>
        /\ Len(glast.ret.questions) <= glast.count
        /\ glast.ret.metadata.total_questions = Len(glast.ret.questions)
        /\ Buckets(glast) > 0 =>
               /\ Len(glast.ret.queries) = Buckets(glast)
               /\ \A k \in 1..Len(glast.ret.queries) :
                      Len(glast.ret.queries[k]) <=
                          Max(1, glast.count \div Buckets(glast))
        /\ Buckets(glast) = 0 =>
               /\ Len(glast.ret.queries) = 1
               /\ glast.ret.questions =
                      MapRows(SqlLimit(Matching(table, None, None,
                                                glast.source_file), glast.count))

\* C24 witness: two categories and count 3 on a table with two Programming
\* questions: one question was taken from each category.
C24_Witness ==
    /\ glast.op = "create_question_set"
    /\ Buckets(glast) = 2
    /\ GivenList(glast.categories)
    /\ glast.categories.list[1] = Str("Programming")
    /\ glast.count = 3
    /\ Len(Matching(table, Str("Programming"), None, glast.source_file)) = 2
    /\ Len(glast.ret.queries[1]) = 1
    /\ Len(glast.ret.questions) = 2

(***************************************************************************)
(* utils.text.split_into_chunks on a text given by its paragraphs: what    *)
(* text.split of the blank line yields, each with its length and whether   *)
(* it is blank.                                                            *)
(***************************************************************************)

MaxParagraphs == 3
MaxParagraphLen == 3
MaxChunkSize == 4

\* The length of the separator "\n\n".
SeparatorLen == Len(<<"\n", "\n">>)

\* A paragraph: its number of characters and whether strip() leaves nothing.
Paragraphs ==
    {p \in [len : 0..MaxParagraphLen, blank : BOOLEAN] : p.len = 0 => p.blank}

ChunkTexts == SeqsUpTo(Paragraphs, MaxParagraphs)

\* [p for p in text.split("\n\n") if p.strip()]
NonBlank(paragraphs) ==
    SelectIdx(paragraphs, {i \in 1..Len(paragraphs) : ~paragraphs[i].blank}, 1)

\* A chunk: the paragraphs joined in it and its length.
EmptyChunk == [parts |-> <<>>, len |-> 0]

\* The loop over the paragraphs from the i-th on, then the last chunk.
RECURSIVE ChunkLoop(_, _, _, _, _)
ChunkLoop(paragraphs, max_chunk_size, i, chunks, current_chunk) ==
    IF i > Len(paragraphs)
    THEN IF current_chunk.len > 0 THEN Append(chunks, current_chunk) ELSE chunks
    ELSE LET paragraph == paragraphs[i]
             alone == [parts |-> <<paragraph>>, len |-> paragraph.len]
         IN  IF current_chunk.len + paragraph.len > max_chunk_size
                /\ current_chunk.len > 0
             THEN ChunkLoop(paragraphs, max_chunk_size, i + 1,
                            Append(chunks, current_chunk), alone)
             ELSE IF current_chunk.len > 0
             THEN ChunkLoop(paragraphs, max_chunk_size, i + 1, chunks,
                    [parts |-> Append(current_chunk.parts, paragraph),
                     len |-> current_chunk.len + SeparatorLen + paragraph.len])
             ELSE ChunkLoop(paragraphs, max_chunk_size, i + 1, chunks, alone)

\* split_into_chunks(text, max_chunk_size)
SplitIntoChunks(paragraphs, max_chunk_size) ==
    ChunkLoop(NonBlank(paragraphs), max_chunk_size, 1, <<>>, EmptyChunk)

SplitIntoChunksCall(paragraphs, max_chunk_size) ==
    /\ hlast' = [op |-> "split_into_chunks", paragraphs |-> paragraphs,
                 max_chunk_size |-> max_chunk_size,
                 chunks |-> SplitIntoChunks(paragraphs, max_chunk_size)]
    /\ UNCHANGED <<baseVars, rlast, alast, jlast, glast, olast, tlast, clients>>

ReturnChunks ==
    /\ hlast # NoECall
    /\ hlast' = NoECall
    /\ UNCHANGED <<baseVars, rlast, alast, jlast, glast, olast, tlast, clients>>

NextChunks ==
    \/ /\ hlast = NoECall
       /\ \E t \in ChunkTexts, m \in 1..MaxChunkSize : SplitIntoChunksCall(t, m)
    \/ ReturnChunks

SpecChunks == ClientStart /\ [][NextChunks]_vars

\* The paragraphs of the chunks from the k-th on, in order.
RECURSIVE PartsOf(_, _)
PartsOf(chunks, k) ==
    IF k > Len(chunks) THEN <<>> ELSE chunks[k].parts \o PartsOf(chunks, k + 1)

\* C25: when every paragraph is at most max_chunk_size long, every chunk is
\* at most max_chunk_size long, and the chunks hold all non-blank
\* paragraphs in their original order.
C25_ChunksWithinSize ==
    (/\ hlast.op = "split_into_chunks"
     /\ \A i \in 1..Len(hlast.paragraphs) :
            hlast.paragraphs[i].len <= hlast.max_chunk_size)
        => /\ \A k \in 1..Len(hlast.chunks) :
                  hlast.chunks[k].len <= hlast.max_chunk_size
           /\ PartsOf(hlast.chunks, 1) = NonBlank(hlast.paragraphs)

(***************************************************************************)
(* ai.tokens: estimate_token_count and optimize_context on a text given by *)
(* its characters; one invocation of optimize_context per step.            *)
(***************************************************************************)

MaxChars == 8
MaxTokens == 2
MaxDepth == 4

\* A letter, a special character, a whitespace character.
TokenChars == {"a", ".", "\n"}

TokenTexts == SeqsUpTo(TokenChars, MaxChars)

CountOf(text, c) == Cardinality({i \in 1..Len(text) : text[i] = c})

\* estimate_token_count: letters / 3.5, whitespace / 3.5 * 0.25 and special
\* characters / 3.5 * 2.0, summed, cut to an integer, plus one.  In
\* fourteenths a letter weighs 4, a whitespace 1 and a special character 8.
EstimateTokenCount(text) ==
    IF text = <<>> THEN 0
    ELSE (4 * CountOf(text, "a") + CountOf(text, "\n")
            + 8 * CountOf(text, ".")) \div 14 + 1

\* The end of the run of newlines that begins at i: the first position
\* after it.
RECURSIVE RunEnd(_, _)
RunEnd(text, i) ==
    IF i <= Len(text) /\ text[i] = "\n" THEN RunEnd(text, i + 1) ELSE i

\* re.split(r"\n\s*\n", text) from position i on: a run of two or more
\* newlines separates two paragraphs, a single newline stays in its
\* paragraph.  acc holds the paragraphs so far, the last one still open.
RECURSIVE SplitParagraphs(_, _, _)
SplitParagraphs(text, i, acc) ==
    IF i > Len(text) THEN acc
    ELSE IF text[i] = "\n" /\ RunEnd(text, i) - i >= 2
    THEN SplitParagraphs(text, RunEnd(text, i), Append(acc, <<>>))
    ELSE SplitParagraphs(text, i + 1,
            [acc EXCEPT ![Len(acc)] = Append(@, text[i])])

\* "\n\n".join(paragraphs)
RECURSIVE JoinParagraphs(_)
JoinParagraphs(paragraphs) ==
    IF paragraphs = <<>> THEN <<>>
    ELSE IF Len(paragraphs) = 1 THEN paragraphs[1]
    ELSE paragraphs[1] \o <<"\n", "\n">> \o JoinParagraphs(Tail(paragraphs))

Ellipsis == <<".", ".", ".">>

\* middle_paragraphs[::step][:sample_size]
Sample(middle_paragraphs, step, sample_size) ==
    LET stepped == SelectIdx(middle_paragraphs,
                     {i \in 1..Len(middle_paragraphs) : (i - 1) % step = 0}, 1)
    IN  SubSeq(stepped, 1, Min(sample_size, Len(stepped)))

\* One invocation of optimize_context(text, max_tokens): the text it
\* returns, or the text it calls itself with.
OptimizeStep(text, max_tokens) ==
    LET estimated_tokens == EstimateTokenCount(text)
        paragraphs == SplitParagraphs(text, 1, <<<<>>>>)
        keep_chars == (Len(text) * max_tokens) \div estimated_tokens
        total_paragraphs == Len(paragraphs)
        keep_first == total_paragraphs \div 3
        keep_last == total_paragraphs \div 3
        beginning == SubSeq(paragraphs, 1, keep_first)
        ending == SubSeq(paragraphs, total_paragraphs - keep_last + 1,
                         total_paragraphs)
        \* middle_ratio times estimated_tokens
        room == max_tokens - EstimateTokenCount(JoinParagraphs(beginning \o ending))
        middle_paragraphs == SubSeq(paragraphs, keep_first + 1,
                                    total_paragraphs - keep_last)
        sample_size == Max(1, (Len(middle_paragraphs) * room) \div estimated_tokens)
        step == Max(1, Len(middle_paragraphs) \div sample_size)
        optimized_text ==
            IF room > 0
            THEN JoinParagraphs(beginning \o <<Ellipsis>> \o
                    Sample(middle_paragraphs, step, sample_size) \o
                    <<Ellipsis>> \o ending)
            ELSE JoinParagraphs(beginning \o <<Ellipsis>> \o ending)
    IN  IF estimated_tokens <= max_tokens THEN [kind |-> "return", text |-> text]
        ELSE IF Len(paragraphs) <= 2
        THEN [kind |-> "return", text |-> SubSeq(text, 1, keep_chars) \o Ellipsis]
        ELSE IF EstimateTokenCount(optimized_text) > max_tokens
        THEN [kind |-> "recurse", text |-> optimized_text]
        ELSE [kind |-> "return", text |-> optimized_text]

\* The call after the invocation on current: it has returned, or it calls
\* itself; a call of itself with the text it was called with never ends
\* (RecursionError).
Invoked(text, max_tokens, current, depth) ==
    LET out == OptimizeStep(current, max_tokens)
    IN  [op |-> "optimize_context", text |-> text, max_tokens |-> max_tokens,
         current |-> out.text, depth |-> depth,
         status |-> IF out.kind = "return" THEN "returned"
                    ELSE IF out.text = current THEN "RecursionError"
                    ELSE "running"]

OptimizeContextCall(text, max_tokens) ==
    /\ olast' = Invoked(text, max_tokens, text, 1)
    /\ UNCHANGED <<baseVars, rlast, alast, jlast, glast, hlast, tlast, clients>>

\* The recursive call of line 114.
Reoptimize ==
    /\ olast # NoECall
    /\ olast.status = "running"
    /\ olast.depth < MaxDepth
    /\ olast' = Invoked(olast.text, olast.max_tokens, olast.current,
                        olast.depth + 1)
    /\ UNCHANGED <<baseVars, rlast, alast, jlast, glast, hlast, tlast, clients>>

ReturnOptimize ==
    /\ olast # NoECall
    /\ olast.status # "running"
    /\ olast' = NoECall
    /\ UNCHANGED <<baseVars, rlast, alast, jlast, glast, hlast, tlast, clients>>

NextOptimize ==
    \/ /\ olast = NoECall
       /\ \E text \in TokenTexts, max_tokens \in 1..MaxTokens : OptimizeContextCall(text, max_tokens)
    \/ Reoptimize
    \/ ReturnOptimize

SpecOptimize == ClientStart /\ [][NextOptimize]_vars

\* C26: optimize_context(text, max_tokens) terminates for every text and
\* every max_tokens >= 1, and the estimated token count of the text it
\* returns is within max_tokens.
C26_OptimizeWithinLimit ==
    olast.op = "optimize_context" =>
        /\ olast.status # "RecursionError"
        /\ olast.status = "returned" =>
               EstimateTokenCount(olast.current) <= olast.max_tokens

(***************************************************************************)
(* QuestionExtractor.extract_questions: the filter of the first pass and   *)
(* _group_question_segments.  A line is given by what the patterns look    *)
(* at: its lead ("key" for "1." or "A)", "Question" for "Question 1:",     *)
(* none) and where its question mark stands.                               *)
(***************************************************************************)

MaxSegments == 3

QLine(lead, mark) == [lead |-> lead, mark |-> mark, blank |-> FALSE]
BlankLine == [lead |-> "", mark |-> "", blank |-> TRUE]

\* The texts of the segments: "1. What is it?"; a blank line and
\* "Question 2: What is it?"; "What is it?"; three option lines; a statement
\* followed by a question; a statement; "A) Is it? yes".
SegmentTexts ==
    { <<QLine("key", "end")>>,
      <<BlankLine, QLine("Question", "end")>>,
      <<QLine("", "end")>>,
      <<QLine("key", ""), QLine("key", ""), QLine("key", "")>>,
      <<QLine("", ""), QLine("", "end")>>,
      <<QLine("", "")>>,
      <<QLine("key", "middle")>> }

Segments == [type : {"potential_question", "text"}, text : SegmentTexts]

SegmentLists == SeqsUpTo(Segments, MaxSegments)

\* A line on which one of question_patterns matches from its start: a lead
\* followed by text that holds a question mark, or a line that ends with
\* the question mark.
MatchesQuestionPattern(line) ==
    /\ ~line.blank
    /\ \/ line.lead \in {"key", "Question"} /\ line.mark # ""
       \/ line.mark = "end"

\* text.strip(): the blank lines at both ends go.
RECURSIVE StripLines(_)
StripLines(lines) ==
    IF lines # <<>> /\ lines[1].blank THEN StripLines(Tail(lines))
    ELSE IF lines # <<>> /\ lines[Len(lines)].blank
    THEN StripLines(SubSeq(lines, 1, Len(lines) - 1))
    ELSE lines

\* _has_question_start(text)
HasQuestionStart(text) ==
    LET stripped == StripLines(text)
    IN  stripped # <<>> /\ MatchesQuestionPattern(stripped[1])

\* _is_question_segment(text): a pattern is found on some line, or at least
\* three lines are option lines.
IsQuestionSegment(text) ==
    \/ \E i \in 1..Len(text) : MatchesQuestionPattern(text[i])
    \/ Cardinality({i \in 1..Len(text) :
                      ~text[i].blank /\ text[i].lead = "key"}) >= 3

\* The first pass of extract_questions.
PotentialQuestions(segments) ==
    SelectIdx(segments,
        {i \in 1..Len(segments) :
            \/ segments[i].type = "potential_question"
            \/ IsQuestionSegment(segments[i].text)}, 1)

\* Mutant of StartsGroup: every segment starts a group.
StartsGroupAlways(current_group, segment) == TRUE

\* The condition of the loop of _group_question_segments.
StartsGroup(current_group, segment) ==
    \/ current_group = <<>>
    \/ HasQuestionStart(segment.text) /\ current_group # <<>>

\* _group_question_segments from the i-th segment on.
RECURSIVE GroupLoop(_, _, _, _)
GroupLoop(segments, i, groups, current_group) ==
    IF i > Len(segments)
    THEN IF current_group # <<>> THEN Append(groups, current_group) ELSE groups
    ELSE IF StartsGroup(current_group, segments[i])
    THEN GroupLoop(segments, i + 1,
            IF current_group # <<>> THEN Append(groups, current_group)
            ELSE groups,
            <<segments[i]>>)
    ELSE GroupLoop(segments, i + 1, groups, Append(current_group, segments[i]))

GroupQuestionSegments(segments) == GroupLoop(segments, 1, <<>>, <<>>)

\* extract_questions up to its second pass.
GroupSegmentsCall(segments) ==
    /\ tlast' = [op |-> "_group_question_segments", segments |-> segments,
                 filtered |-> PotentialQuestions(segments),
                 groups |-> GroupQuestionSegments(PotentialQuestions(segments))]
    /\ UNCHANGED <<baseVars, rlast, alast, jlast, glast, hlast, olast, clients>>

ReturnGroups ==
    /\ tlast # NoECall
    /\ tlast' = NoECall
    /\ UNCHANGED <<baseVars, rlast, alast, jlast, glast, hlast, olast, clients>>

NextGroups ==
    \/ /\ tlast = NoECall
       /\ \E segments \in SegmentLists : GroupSegmentsCall(segments)
    \/ ReturnGroups

SpecGroups == ClientStart /\ [][NextGroups]_vars

\* The segments of the groups from the k-th on, in order.
RECURSIVE Concatenated(_, _)
Concatenated(groups, k) ==
    IF k > Len(groups) THEN <<>> ELSE groups[k] \o Concatenated(groups, k + 1)

\* C28: the groups are non-empty, their concatenation is the filtered
\* segment sequence, every group after the first begins with a segment
\* whose first line matches a question-start pattern, and no segment at a
\* later place of a group does.
C28_GroupsPartition ==
    tlast.op = "_group_question_segments" =>
        /\ \A k \in 1..Len(tlast.groups) : tlast.groups[k] # <<>>
        /\ Concatenated(tlast.groups, 1) = tlast.filtered
        /\ \A k \in 2..Len(tlast.groups) :
               HasQuestionStart(tlast.groups[k][1].text)
        /\ \A k \in 1..Len(tlast.groups) :
               \A j \in 2..Len(tlast.groups[k]) :
                   ~HasQuestionStart(tlast.groups[k][j].text)

\* C28 witness: three segments passed the filter; the first group holds a
\* segment that starts no question and its continuation, the second group
\* begins with a question start.
C28_Witness ==
    /\ tlast.op = "_group_question_segments"
    /\ Len(tlast.filtered) = 3
    /\ Len(tlast.groups) = 2
    /\ Len(tlast.groups[1]) = 2
    /\ ~HasQuestionStart(tlast.groups[1][1].text)
    /\ HasQuestionStart(tlast.groups[2][1].text)

(***************************************************************************)
(* Two clients of one cache file.  A set is one transaction; a get is a    *)
(* SELECT on one connection and, for an expired entry, a DELETE by hash on *)
(* another, so calls of the other client can commit between the two.       *)
(***************************************************************************)

SharedPrompts == {"p1"}
SharedParams == <<[k |-> "model", v |-> "haiku"]>>

Client(pc, op, hash_key, ret, between) ==
    [pc |-> pc, op |-> op, hash |-> hash_key, ret |-> ret, between |-> between]

\* ResponseCache.set by client c: the clients that have read an expired
\* entry of the same hash and not yet deleted it note the new row.
ClientSet(c, prompt, response) ==
    LET hash_key == CalculateHash(prompt, SharedParams)
        after == CacheSet(rows, prompt, SharedParams, response, now)
    IN  /\ clients[c].pc = "idle"
        /\ rows' = after
        /\ clients' = [d \in ClientIds |->
              IF d = c THEN Client("returned", "set", hash_key, None, None)
              ELSE IF clients[d].pc = "expired" /\ clients[d].hash = hash_key
              THEN [clients[d] EXCEPT !.between = Lookup(after, hash_key)]
              ELSE clients[d]]
        /\ UNCHANGED <<now, size_limit, age_limit, clast, fill, storageVars,
                       serviceVars, vlast, xlast, plast,
                       rlast, alast, jlast, glast, hlast, olast, tlast>>

\* ResponseCache.get by client c up to the age check: the SELECT and the
\* close of its connection.  A miss and a hit return; an expired entry
\* leaves the call before its delete.
ClientGetRead(c, prompt) ==
    LET hash_key == CalculateHash(prompt, SharedParams)
        result == Lookup(rows, hash_key)
    IN  /\ clients[c].pc = "idle"
        /\ clients' = [clients EXCEPT ![c] =
              IF result = None
              THEN Client("returned", "get", hash_key, None, None)
              ELSE IF Expired(result.timestamp, now)
              THEN Client("expired", "get", hash_key, None, None)
              ELSE Client("returned", "get", hash_key,
                          Loads(result.response), None)]
        /\ UNCHANGED <<cacheVars, storageVars, serviceVars, vlast, xlast, plast,
                       rlast, alast, jlast, glast, hlast, olast, tlast>>

\* The self.delete(prompt, params) of the get of client c, and its return.
ClientGetDelete(c) ==
    /\ clients[c].pc = "expired"
    /\ rows' = DeleteHash(rows, clients[c].hash)
    /\ clients' = [clients EXCEPT ![c].pc = "returned"]
    /\ UNCHANGED <<now, size_limit, age_limit, clast, fill, storageVars,
                   serviceVars, vlast, xlast, plast,
                   rlast, alast, jlast, glast, hlast, olast, tlast>>

\* The caller of client c has the result.
ClientReturn(c) ==
    /\ clients[c].pc = "returned"
    /\ clients' = [clients EXCEPT ![c] = NoClients[c]]
    /\ UNCHANGED <<cacheVars, storageVars, serviceVars, vlast, xlast, plast,
                   rlast, alast, jlast, glast, hlast, olast, tlast>>

\* The clock of the machine advances.
ClockAdvances ==
    /\ now < MaxTick
    /\ now' = now + 1
    /\ UNCHANGED <<rows, size_limit, age_limit, clast, fill, storageVars,
                   serviceVars, libVars>>

SharedStart ==
    /\ rows = <<>>
    /\ now = 0
    /\ size_limit = DEFAULT_CACHE_SIZE_LIMIT
    /\ age_limit \in 1..MaxAgeLimit
    /\ clast = NoCall
    /\ fill = EmptyFill
    /\ IdleStorage /\ IdleService /\ IdleLib

NextShared ==
    \/ \E c \in ClientIds, p \in SharedPrompts, r \in Responses : ClientSet(c, p, r)
    \/ \E c \in ClientIds, p \in SharedPrompts : ClientGetRead(c, p)
    \/ \E c \in ClientIds : ClientGetDelete(c)
    \/ \E c \in ClientIds : ClientReturn(c)
    \/ ClockAdvances

SpecShared == SharedStart /\ [][NextShared]_vars

\* C29: when another client's set of the same key has committed between
\* the read of a get that saw an expired entry and its delete, the entry
\* that was set is still there when the get has completed.
C29_FreshEntryKept ==
    \A c \in ClientIds :
        (/\ clients[c].pc = "returned"
         /\ clients[c].op = "get"
         /\ clients[c].between # None
         /\ ~Expired(clients[c].between.timestamp, now))
            => Lookup(rows, clients[c].hash) # None

====
